---- MODULE Spec2Model ----
(***************************************************************************)
(* Model of the asynchronous reconciliation engine of the Helm resource    *)
(* provider: the CloudFormation handlers Create/Read/Update/Delete         *)
(* (resource.go), the stage logic (action.go), the event packaging with    *)
(* the timeout check (events.go) and the VPC connector ("bridge")          *)
(* lifecycle (lambda.go).  One action is one handler invocation; external  *)
(* services (Lambda API, Helm, EKS) are the environment.                   *)
(***************************************************************************)
EXTENDS Integers, Sequences, FiniteSets, TLC

(* ---------------- bounds of the model ---------------- *)
MaxNow == 60          \* the clock (minutes) stops advancing here
TickStep == 30        \* minutes between two clock observations
ShortTimeOut == 30    \* the non-default Model.TimeOut value explored
MaxDiag == 2          \* cap on len(LastKnownErrors)
MaxInstalls == 2      \* saturation of the install/upgrade counter
MaxDependents == 1    \* other releases that use the same connector
MaxDocs == 3          \* documents of a manifest
MaxSubnets == 2       \* subnets of a cluster
MaxProcs == 2         \* overlapping executions of the repository add/refresh

(* ---------------- program constants ---------------- *)
retryCount == 3
defaultTimeOut == 60
callbackDelaySeconds == 30

InitStage == "Init"
ReleaseStabilize == "ReleaseStabilize"
UninstallRelease == "UninstallRelease"
LambdaStabilize == "LambdaStabilize"
CompleteStage == "Complete"
NoStage == "NoStage"
Stages == {InitStage, ReleaseStabilize, UninstallRelease, LambdaStabilize, CompleteStage, NoStage}

InstallReleaseAction == "InstallRelease"
UpdateReleaseAction == "UpdateRelease"
CheckReleaseAction == "CheckRelease"
GetPendingAction == "GetPending"
GetResourcesAction == "GetResources"
UninstallReleaseAction == "UninstallRelease"
ListReleaseAction == "ListRelease"

StatePending == "Pending"
StateActive == "Active"
StateInactive == "Inactive"
StateFailed == "Failed"
StateNotFound == "NotFound"
LambdaStates == {StatePending, StateActive, StateInactive, StateFailed, StateNotFound}

StatusDeployed == "deployed"
StatusPendingInstall == "pending-install"
StatusPendingUpgrade == "pending-upgrade"
StatusFailed == "failed"
ReleaseAbsent == "absent"
ReleaseStatuses == {StatusDeployed, StatusPendingInstall, StatusPendingUpgrade, StatusFailed}

Failed == "FAILED"
Success == "SUCCESS"
InProgress == "IN_PROGRESS"

(* error values: a message is a sequence of text pieces, <<>> is a nil error *)
NoErr == <<>>
Err(s) == <<s>>
TimedOutText == "resource creation timed out\n, LastKnownErrors: "
UnhandledStageText == "unhandled stage"
ReleaseFailedText == "release failed"
NotStabilizedText == "vpc connector didn't stabilize in time"
NotDesiredStateText == "not in desired state"

VARIABLES
    op,               \* the handler CloudFormation keeps invoking for this operation
    model,            \* currentModel as persisted by the caller between polls
    CallbackContext,  \* the resume token: <<>> or <<[Stage, StartTime]>>
    StartTime,        \* os.Getenv("StartTime")
    LastKnownErrors,  \* the process-global diagnostics trail
    now,              \* wall clock, minutes
    cluster,          \* what the EKS endpoint looks like: public / private / noNat
    fn,               \* state of the VPC connector function as Lambda reports it
    release,          \* status of the Helm release, or absent
    result,           \* the ProgressEvent returned by the last invocation
    rawErr,           \* the error returned next to the event by the last invocation
    inv,              \* what the last invocation saw and did (see Return)
    installs,         \* install/upgrade calls issued so far in this operation
    seenRS,           \* some poll of this operation has returned ReleaseStabilize
    dependents,       \* other releases that run through the same connector
    pin,              \* the arguments of a utility function called on its own
    pout,             \* what that function returned
    namespaces,       \* the namespaces of the cluster
    repoFile,         \* the repository config file: <<>> or <<its entries>>
    lockHolder,       \* the execution that holds the file lock, 0 for none
    indexes,          \* for each repository, the execution that last wrote its index file (0: none)
    proc              \* the executions of addHelmRepoUpdate: where each one stands

\* the repository config on disk and the executions that work on it
repoVars == <<repoFile, lockHolder, indexes, proc>>

sideVars == <<namespaces, repoVars>>

vars == <<op, model, CallbackContext, StartTime, LastKnownErrors, now, cluster, fn,
          release, result, rawErr, inv, installs, seenRS, dependents, pin, pout, sideVars>>

Ops == {"Create", "Update", "Delete", "Read"}

(* ---------------- utils.go ---------------- *)

\* strings.Join(a, sep)
RECURSIVE Join(_, _)
Join(a, sep) ==
    IF Len(a) = 0 THEN <<>>
    ELSE IF Len(a) = 1 THEN <<a[1]>>
    ELSE <<a[1], sep>> \o Join(Tail(a), sep)

\* the budget in seconds: TimeOut minutes, or the default
budgetSeconds(timeOut) ==
    IF timeOut = <<>> THEN defaultTimeOut * 60 ELSE timeOut[1] * 60

checkTimeOut(startTime, timeOut, t) ==
    LET s == budgetSeconds(timeOut)
        ts == (t - startTime) * 60
    IN ts >= s

\* mutant: the budget must be exceeded, not reached
checkTimeOutAt_Exceeded(startTime, timeOut, nowMs) ==
    LET s == budgetSeconds(timeOut)
        tsMs == nowMs - startTime * 1000
    IN tsMs > s * 1000

\* checkTimeOut with the clock in milliseconds: startTime is a whole second
\* (RFC3339), time.Since(t).Seconds() is a fraction, s.Seconds() is whole
checkTimeOutAt(startTime, timeOut, nowMs) ==
    LET s == budgetSeconds(timeOut)
        tsMs == nowMs - startTime * 1000
    IN tsMs >= s * 1000

\* getStage: the stage of the resume token, Init when there is none; it also
\* restores the StartTime of the token into the environment
getStage(context) ==
    IF context = <<>> THEN InitStage ELSE context[1].Stage

getStartTime(context, t) ==
    IF context = <<>> THEN t ELSE context[1].StartTime

pushLastKnownError(lke, msg) == Append(lke, msg)

\* aws.StringValue of a *string: "" for nil
StringValue(p) == IF p = <<>> THEN "" ELSE p[1]

\* generateID: the ID is <<locator kind, release name>>, <<>> is nil; the cluster
\* locator is looked at first, and one locator is needed
generateID(m) ==
    IF m.ClusterID THEN [id |-> <<"cluster", StringValue(m.Name)>>, err |-> NoErr]
    ELSE IF m.KubeConfig THEN [id |-> <<"kubeconfig", StringValue(m.Name)>>, err |-> NoErr]
    ELSE [id |-> <<>>, err |-> Err("Either ClusterID or KubeConfig must be specified")]

DecodeID(id) ==
    IF Len(id) = 2 THEN NoErr ELSE Err("Decode")

\* the Name field of a decoded ID
DecodedName(id) == <<id[2]>>

\* getReleaseName: the name given, or one made from the chart name
getReleaseName(name) == IF name = <<>> THEN <<"chart-gen">> ELSE name

\* getReleaseNameContext: the Name of the resume token, nil when there is none
getReleaseNameContext(context) ==
    IF context = <<>> \/ context[1].Name = "" THEN <<>> ELSE <<context[1].Name>>

(* ---------------- utils.go: the physical ID as text ---------------- *)

\* text is a sequence of character codes; a *string is <<>> (nil) or <<text>>
Quote == 34
Backslash == 92
KeyClusterID == <<67, 108, 117, 115, 116, 101, 114, 73, 68>>
KeyKubeConfig == <<75, 117, 98, 101, 67, 111, 110, 102, 105, 103>>
KeyRegion == <<82, 101, 103, 105, 111, 110>>
KeyName == <<78, 97, 109, 101>>
KeyNamespace == <<78, 97, 109, 101, 115, 112, 97, 99, 101>>

\* type ID struct: five strings, "" when not set
ZeroID == [ClusterID |-> <<>>, KubeConfig |-> <<>>, Region |-> <<>>, Name |-> <<>>, Namespace |-> <<>>]

\* encoding/json: a string value is quoted, '"' and '\' are escaped with '\'
RECURSIVE jsonEscape(_)
jsonEscape(s) ==
    IF s = <<>> THEN <<>>
    ELSE (IF s[1] \in {Quote, Backslash} THEN <<Backslash, s[1]>> ELSE <<s[1]>>) \o jsonEscape(Tail(s))

jsonString(s) == <<Quote>> \o jsonEscape(s) \o <<Quote>>

jsonMember(key, s) == jsonString(key) \o <<58>> \o jsonString(s)

\* json.Marshal(i) of an ID: the fields in declaration order, no omitempty
jsonMarshal(i) ==
    <<123>> \o jsonMember(KeyClusterID, i.ClusterID) \o <<44>>
            \o jsonMember(KeyKubeConfig, i.KubeConfig) \o <<44>>
            \o jsonMember(KeyRegion, i.Region) \o <<44>>
            \o jsonMember(KeyName, i.Name) \o <<44>>
            \o jsonMember(KeyNamespace, i.Namespace) \o <<125>>

\* the scanner of a quoted string, from the position after the opening quote
RECURSIVE jsonScan(_, _, _)
jsonScan(b, p, acc) ==
    IF p > Len(b) THEN [ok |-> FALSE, val |-> <<>>, next |-> p]
    ELSE IF b[p] = Quote THEN [ok |-> TRUE, val |-> acc, next |-> p + 1]
    ELSE IF b[p] = Backslash
         THEN IF p + 1 <= Len(b) /\ b[p + 1] \in {Quote, Backslash}
              THEN jsonScan(b, p + 2, Append(acc, b[p + 1]))
              ELSE [ok |-> FALSE, val |-> <<>>, next |-> p]
    ELSE jsonScan(b, p + 1, Append(acc, b[p]))

jsonReadString(b, p) ==
    IF p <= Len(b) /\ b[p] = Quote THEN jsonScan(b, p + 1, <<>>)
    ELSE [ok |-> FALSE, val |-> <<>>, next |-> p]

\* a decoded member is stored in the field of that name; other names are ignored
jsonStore(i, key, s) ==
    CASE key = KeyClusterID -> [i EXCEPT !.ClusterID = s]
      [] key = KeyKubeConfig -> [i EXCEPT !.KubeConfig = s]
      [] key = KeyRegion -> [i EXCEPT !.Region = s]
      [] key = KeyName -> [i EXCEPT !.Name = s]
      [] key = KeyNamespace -> [i EXCEPT !.Namespace = s]
      [] OTHER -> i

RECURSIVE jsonMembers(_, _, _)
jsonMembers(b, p, i) ==
    LET k == jsonReadString(b, p)
        v == jsonReadString(b, k.next + 1)
    IN IF ~k.ok \/ k.next > Len(b) \/ b[k.next] # 58 THEN [ok |-> FALSE, val |-> ZeroID]
       ELSE IF ~v.ok \/ v.next > Len(b) THEN [ok |-> FALSE, val |-> ZeroID]
       ELSE IF b[v.next] = 44 THEN jsonMembers(b, v.next + 1, jsonStore(i, k.val, v.val))
       ELSE IF b[v.next] = 125 /\ v.next = Len(b)
            THEN [ok |-> TRUE, val |-> jsonStore(i, k.val, v.val)]
       ELSE [ok |-> FALSE, val |-> ZeroID]

\* json.Unmarshal(b, i) into a zero ID
jsonUnmarshal(b) ==
    IF Len(b) >= 2 /\ b[1] = 123
    THEN IF Len(b) = 2 /\ b[2] = 125 THEN [ok |-> TRUE, val |-> ZeroID]
         ELSE jsonMembers(b, 2, ZeroID)
    ELSE [ok |-> FALSE, val |-> ZeroID]

\* the URL alphabet of encoding/base64: A-Z a-z 0-9 - _
base64Char(v) ==
    IF v < 26 THEN 65 + v
    ELSE IF v < 52 THEN 97 + (v - 26)
    ELSE IF v < 62 THEN 48 + (v - 52)
    ELSE IF v = 62 THEN 45 ELSE 95

\* the value of a character of the alphabet, 64 for any other character
base64Value(c) ==
    IF c >= 65 /\ c <= 90 THEN c - 65
    ELSE IF c >= 97 /\ c <= 122 THEN c - 97 + 26
    ELSE IF c >= 48 /\ c <= 57 THEN c - 48 + 52
    ELSE IF c = 45 THEN 62
    ELSE IF c = 95 THEN 63 ELSE 64

\* base64.RawURLEncoding.EncodeToString: 3 bytes give 4 characters, the last
\* 1 or 2 bytes give 2 or 3 characters, and no padding is added
RECURSIVE base64Encode(_)
base64Encode(b) ==
    IF Len(b) = 0 THEN <<>>
    ELSE IF Len(b) = 1
         THEN <<base64Char(b[1] \div 4), base64Char((b[1] % 4) * 16)>>
    ELSE IF Len(b) = 2
         THEN <<base64Char(b[1] \div 4), base64Char((b[1] % 4) * 16 + b[2] \div 16),
                base64Char((b[2] % 16) * 4)>>
    ELSE <<base64Char(b[1] \div 4), base64Char((b[1] % 4) * 16 + b[2] \div 16),
           base64Char((b[2] % 16) * 4 + b[3] \div 64), base64Char(b[3] % 64)>>
         \o base64Encode(SubSeq(b, 4, Len(b)))

\* base64.RawURLEncoding.DecodeString of characters that are all in the alphabet
RECURSIVE base64Bytes(_)
base64Bytes(v) ==
    IF Len(v) = 0 THEN <<>>
    ELSE IF Len(v) = 2 THEN <<v[1] * 4 + v[2] \div 16>>
    ELSE IF Len(v) = 3 THEN <<v[1] * 4 + v[2] \div 16, (v[2] % 16) * 16 + v[3] \div 4>>
    ELSE <<v[1] * 4 + v[2] \div 16, (v[2] % 16) * 16 + v[3] \div 4, (v[3] % 4) * 64 + v[4]>>
         \o base64Bytes(SubSeq(v, 5, Len(v)))

base64Decode(s) ==
    LET v == [k \in DOMAIN s |-> base64Value(s[k])]
    IN IF (\E k \in DOMAIN v : v[k] = 64) \/ Len(s) % 4 = 1
       THEN [ok |-> FALSE, val |-> <<>>]
       ELSE [ok |-> TRUE, val |-> base64Bytes(v)]

\* mutant: the release name and the namespace are stored in each other's field
generateIDText_SwappedNames(m, name, region, namespace) ==
    IF m.ClusterID # <<>>
    THEN [id |-> <<base64Encode(jsonMarshal([ZeroID EXCEPT !.ClusterID = m.ClusterID[1],
                      !.Name = namespace, !.Namespace = name, !.Region = region]))>>,
          err |-> NoErr]
    ELSE IF m.KubeConfig # <<>>
    THEN [id |-> <<base64Encode(jsonMarshal([ZeroID EXCEPT !.KubeConfig = m.KubeConfig[1],
                      !.Name = namespace, !.Namespace = name, !.Region = region]))>>,
          err |-> NoErr]
    ELSE [id |-> <<>>, err |-> Err("Either ClusterID or KubeConfig must be specified")]

\* generateID(m, name, region, namespace) down to the text of the ID
generateIDText(m, name, region, namespace) ==
    IF m.ClusterID # <<>>
    THEN [id |-> <<base64Encode(jsonMarshal([ZeroID EXCEPT !.ClusterID = m.ClusterID[1],
                      !.Name = name, !.Namespace = namespace, !.Region = region]))>>,
          err |-> NoErr]
    ELSE IF m.KubeConfig # <<>>
    THEN [id |-> <<base64Encode(jsonMarshal([ZeroID EXCEPT !.KubeConfig = m.KubeConfig[1],
                      !.Name = name, !.Namespace = namespace, !.Region = region]))>>,
          err |-> NoErr]
    ELSE [id |-> <<>>, err |-> Err("Either ClusterID or KubeConfig must be specified")]

\* decodeID(id)
decodeID(id) ==
    LET str == base64Decode(id)
        i == jsonUnmarshal(str.val)
    IN IF ~str.ok THEN [val |-> ZeroID, err |-> <<"Error: At ", "Decode">>]
       ELSE IF ~i.ok THEN [val |-> ZeroID, err |-> <<"Error: At ", "Json Unmarshal">>]
       ELSE [val |-> i.val, err |-> NoErr]

(* ---------------- lambda.go: the name of the connector ---------------- *)

FunctionNamePrefix == <<104, 101, 108, 109, 45, 112, 114, 111, 118, 105, 100, 101, 114, 45, 118, 112, 99, 45, 99, 111, 110, 110, 101, 99, 116, 111, 114, 45>>

\* strings.Join(ids, sep) on texts
RECURSIVE joinText(_, _)
joinText(ids, sep) ==
    IF Len(ids) = 0 THEN <<>>
    ELSE IF Len(ids) = 1 THEN ids[1]
    ELSE ids[1] \o sep \o joinText(Tail(ids), sep)

\* getHash: a fixed digest of the text (MD5 in the tests); two texts that
\* differ in the order of their characters have different digests
RECURSIVE hashFold(_, _)
hashFold(s, h) ==
    IF s = <<>> THEN h ELSE hashFold(Tail(s), (h * 31 + s[1]) % 16777213)

getHash(s) == <<hashFold(s, 7)>>

\* newLambdaResource: the function name of the connector of (locator, vpc);
\* clusterID and kubeconfig are *string, vpc is <<>> or <<[SecurityGroupIds, SubnetIds]>>
newLambdaResource(clusterID, kubeconfig, vpc) ==
    IF vpc = <<>> THEN [panic |-> FALSE, functionName |-> <<>>]
    ELSE LET suffix == joinText(vpc[1].SecurityGroupIds, <<45>>) \o <<45>>
                         \o joinText(vpc[1].SubnetIds, <<45>>)
         IN IF clusterID # <<>>
            THEN [panic |-> FALSE,
                  functionName |-> <<FunctionNamePrefix \o getHash(clusterID[1] \o <<45>> \o suffix)>>]
            ELSE IF kubeconfig # <<>>
            THEN [panic |-> FALSE,
                  functionName |-> <<FunctionNamePrefix \o getHash(kubeconfig[1] \o <<45>> \o suffix)>>]
            ELSE [panic |-> TRUE, functionName |-> <<>>]     \* *nameSuffix of a nil pointer

\* the text newLambdaResource feeds to getHash: the locator, the security-group
\* ids and the subnet ids, all joined with "-"
nameText(clusterID, kubeconfig, vpc) ==
    LET suffix == joinText(vpc[1].SecurityGroupIds, <<45>>) \o <<45>>
                      \o joinText(vpc[1].SubnetIds, <<45>>)
    IN IF clusterID # <<>> THEN clusterID[1] \o <<45>> \o suffix
       ELSE kubeconfig[1] \o <<45>> \o suffix

(* ---------------- events.go ---------------- *)

errorEvent(hasModel, err) ==
    [OperationStatus |-> Failed, Message |-> err, HasModel |-> hasModel,
     Stage |-> "", StartTime |-> 0, Name |-> "", CallbackDelaySeconds |-> 0]

successEvent ==
    [OperationStatus |-> Success, Message |-> <<>>, HasModel |-> TRUE,
     Stage |-> "", StartTime |-> 0, Name |-> "", CallbackDelaySeconds |-> 0]

\* Stage, StartTime and Name are the CallbackContext of the event
inProgressEvent(m, stage, start) ==
    [OperationStatus |-> InProgress, Message |-> <<stage, " in progress\n">>, HasModel |-> TRUE,
     Stage |-> stage, StartTime |-> start, Name |-> StringValue(m.Name),
     CallbackDelaySeconds |-> callbackDelaySeconds]

emptyEvent ==
    [OperationStatus |-> "", Message |-> <<>>, HasModel |-> FALSE,
     Stage |-> "", StartTime |-> 0, Name |-> "", CallbackDelaySeconds |-> 0]

\* mutant: the step's error is looked at before the timeout
makeEvent_ErrFirst(x, nextStage, err) ==
    LET timeout == checkTimeOut(x.start, x.model.TimeOut, x.t)
    IN IF err # NoErr THEN errorEvent(TRUE, err)
       ELSE IF timeout /\ nextStage # CompleteStage
       THEN errorEvent(FALSE, <<TimedOutText>> \o Join(x.lke, "\n "))
       ELSE IF nextStage = CompleteStage THEN successEvent
       ELSE inProgressEvent(x.model, nextStage, x.start)

\* mutant: the timeout only turns a failing step into the timeout failure
makeEvent_TimeoutOnError(x, nextStage, err) ==
    LET timeout == checkTimeOut(x.start, x.model.TimeOut, x.t)
    IN IF timeout /\ nextStage # CompleteStage /\ err # NoErr
       THEN errorEvent(FALSE, <<TimedOutText>> \o Join(x.lke, "\n "))
       ELSE IF err # NoErr THEN errorEvent(TRUE, err)
       ELSE IF nextStage = CompleteStage THEN successEvent
       ELSE inProgressEvent(x.model, nextStage, x.start)

\* mutant: the token is stamped with the time of the poll
makeEvent_StampNow(x, nextStage, err) ==
    LET timeout == checkTimeOut(x.start, x.model.TimeOut, x.t)
    IN IF timeout /\ nextStage # CompleteStage
       THEN errorEvent(FALSE, <<TimedOutText>> \o Join(x.lke, "\n "))
       ELSE IF err # NoErr THEN errorEvent(TRUE, err)
       ELSE IF nextStage = CompleteStage THEN successEvent
       ELSE inProgressEvent(x.model, nextStage, x.t)

\* x carries the invocation's environment: StartTime, the clock t, the trail
makeEvent(x, nextStage, err) ==
    LET timeout == checkTimeOut(x.start, x.model.TimeOut, x.t)
    IN IF timeout /\ nextStage # CompleteStage
       THEN errorEvent(FALSE, <<TimedOutText>> \o Join(x.lke, "\n "))
       ELSE IF err # NoErr THEN errorEvent(TRUE, err)
       ELSE IF nextStage = CompleteStage THEN successEvent
       ELSE inProgressEvent(x.model, nextStage, x.start)


(* ---------------- results of the steps of one invocation ---------------- *)

\* a service call made by this invocation
Call(x, name) == [x EXCEPT !.calls = Append(@, name)]

\* what a handler returns: the event, the raw error next to it, the final context
Ret(x, nextStage, err) ==
    [ev |-> makeEvent(x, nextStage, err), rawErr |-> NoErr, x |-> x,
     next |-> nextStage, err |-> err]

(* ---------------- helm.go ---------------- *)

\* HelmInstall: the engine call either raises an error or returns a release handle
HelmInstall(x) ==
    LET x1 == Call(x, "HelmInstall")
    IN {[err |-> Err("Helm install"), val |-> "", x |-> [x1 EXCEPT !.release = s]] :
                s \in {x.release, StatusFailed}}
       \cup {[err |-> NoErr, val |-> "", x |-> [x1 EXCEPT !.release = s]] :
                s \in {StatusPendingInstall, StatusDeployed, StatusFailed}}

HelmUpgrade(x) ==
    LET x1 == Call(x, "HelmUpgrade")
    IN {[err |-> Err("Helm Upgrade"), val |-> "", x |-> [x1 EXCEPT !.release = s]] :
                s \in {x.release, StatusFailed}}
       \cup {[err |-> NoErr, val |-> "", x |-> [x1 EXCEPT !.release = s]] :
                s \in {StatusPendingUpgrade, StatusDeployed, StatusFailed}}

\* the error of the engine's uninstall Run: "not found" when the release is absent
uninstallRun(x) ==
    IF x.release = ReleaseAbsent THEN {[err |-> Err("not found"), x |-> [x EXCEPT !.notFound = TRUE]]}
    ELSE {[err |-> NoErr, x |-> [x EXCEPT !.release = ReleaseAbsent]],
          [err |-> Err("uninstall refused"), x |-> x]}

\* mutant: the "not found" of the engine is passed on as an error
HelmUninstall_NotFoundFatal(x) ==
    { IF r.err # NoErr
      THEN [err |-> Err("Helm Uninstall"), val |-> "", x |-> r.x]
      ELSE [err |-> NoErr, val |-> "", x |-> r.x]
      : r \in uninstallRun(Call(x, "HelmUninstall")) }

HelmUninstall(x) ==
    { IF r.err # NoErr
      THEN IF r.err = Err("not found")
           THEN [err |-> NoErr, val |-> "", x |-> r.x]
           ELSE [err |-> Err("Helm Uninstall"), val |-> "", x |-> r.x]
      ELSE [err |-> NoErr, val |-> "", x |-> r.x]
      : r \in uninstallRun(Call(x, "HelmUninstall")) }

HelmStatus(x) ==
    LET x1 == Call(x, "HelmStatus")
    IN IF x.release = ReleaseAbsent
       THEN {[err |-> Err("release: not found"), val |-> "", x |-> x1]}
       ELSE {[err |-> NoErr, val |-> x.release, x |-> x1],
             [err |-> Err("status unavailable"), val |-> "", x |-> x1]}

\* HelmList: the releases of the chart in the namespace, or the error of the engine
HelmList(x) ==
    LET x1 == Call(x, "HelmList")
    IN {[err |-> Err("Helm list"), val |-> "", x |-> x1],
        [err |-> NoErr, val |-> IF x.release = ReleaseAbsent THEN "no release" ELSE "listed", x |-> x1]}

(* ---------------- kube.go ---------------- *)

\* CheckPendingResources: the verdict on the release's manifest, or an error
CheckPendingResources(x) ==
    LET x1 == Call(x, "CheckPendingResources")
    IN {[err |-> NoErr, val |-> b, x |-> x1] : b \in BOOLEAN}
       \cup {[err |-> Err("pending check"), val |-> FALSE, x |-> x1]}

\* GetKubeResources: the resources of the release's manifest; a release without
\* manifest and a manifest that cannot be read are errors
GetKubeResources(x) ==
    LET x1 == Call(x, "GetKubeResources")
    IN IF x.release = ReleaseAbsent
       THEN {[err |-> Err("Manifest not provided in the request"), val |-> "", x |-> x1]}
       ELSE {[err |-> NoErr, val |-> "resources", x |-> x1],
             [err |-> Err("manifest details"), val |-> "", x |-> x1]}

(* ---------------- kube.go: namespaces ---------------- *)

AlreadyExists == Err("AlreadyExists")

\* Namespaces().Create of the API server: a namespace that is there is answered
\* with AlreadyExists, one that is not is made; any request can fail otherwise
namespaceCreate(existing, namespace) ==
    {[err |-> Err("Forbidden"), existing |-> existing]}
    \cup IF namespace \in existing
         THEN {[err |-> AlreadyExists, existing |-> existing]}
         ELSE {[err |-> NoErr, existing |-> existing \cup {namespace}]}

\* mutant: AlreadyExists is an error like any other
createNamespace_ExistsIsError(existing, namespace) ==
    { IF r.err = NoErr THEN [err |-> NoErr, answer |-> r.err, existing |-> r.existing]
      ELSE [err |-> <<"Error: At ", "Create NS", " - ">> \o r.err, answer |-> r.err,
            existing |-> r.existing]
      : r \in namespaceCreate(existing, namespace) }

\* createNamespace; answer is what the API server said
createNamespace(existing, namespace) ==
    { IF r.err = NoErr THEN [err |-> NoErr, answer |-> r.err, existing |-> r.existing]
      ELSE IF r.err = AlreadyExists
           THEN [err |-> NoErr, answer |-> r.err, existing |-> r.existing]
           ELSE [err |-> <<"Error: At ", "Create NS", " - ">> \o r.err, answer |-> r.err,
                 existing |-> r.existing]
      : r \in namespaceCreate(existing, namespace) }

(* ---------------- kube.go: the objects of a manifest ---------------- *)

\* a document of the manifest text: an object as the cluster reports it, a
\* document without content (blank or comment), or one the builder fails on
Doc(kind, type, ingress, ready, replicas, unavailable) ==
    [kind |-> kind, type |-> type, ingress |-> ingress, ready |-> ready,
     replicas |-> replicas, unavailable |-> unavailable]

BlankDoc == Doc("#blank", "", 0, 0, 0, 0)

BadDoc == Doc("#bad", "", 0, 0, 0, 0)

\* res.Infos() of the resource builder: one info per document with content; an
\* error of any document is the error of the whole
RECURSIVE builderInfos(_)
builderInfos(docs) ==
    IF docs = <<>> THEN <<>>
    ELSE IF docs[1] = BlankDoc THEN builderInfos(Tail(docs))
    ELSE <<docs[1]>> \o builderInfos(Tail(docs))

getManifestDetails(manifest) ==
    {[infos |-> <<>>, err |-> Err("Write manifest file: ")]}
    \cup IF \E i \in DOMAIN manifest : manifest[i] = BadDoc
         THEN {[infos |-> <<>>, err |-> Err("builder")]}
         ELSE {[infos |-> builderInfos(manifest), err |-> NoErr]}

\* the switch on the kind of one object: TRUE sets pending, FALSE leaves it
pendingCase(o) ==
    CASE o.kind = "Service" -> o.type = "LoadBalancer" /\ o.ingress <= 0
      [] o.kind = "Deployment" -> o.ready < o.replicas
      [] o.kind = "DaemonSet" -> o.unavailable > 0
      [] o.kind = "StatefulSet" -> o.ready < o.replicas
      [] o.kind = "Ingress" -> o.ingress <= 0
      [] OTHER -> FALSE

\* mutant: the verdict of an object replaces that of the objects before it
RECURSIVE pendingLoop_LastWins(_, _)
pendingLoop_LastWins(infos, pending) ==
    IF infos = <<>> THEN pending
    ELSE pendingLoop_LastWins(Tail(infos), pendingCase(infos[1]))

\* for _, info := range infos { ... pending = true ... }
RECURSIVE pendingLoop(_, _)
pendingLoop(infos, pending) ==
    IF infos = <<>> THEN pending
    ELSE pendingLoop(Tail(infos), IF pendingCase(infos[1]) THEN TRUE ELSE pending)

\* CheckPendingResources on a manifest: the empty text is refused, an error of
\* the builder is returned with pending true, else the loop decides
CheckPendingManifest(manifest) ==
    IF manifest = <<>>
    THEN {[pending |-> TRUE, err |-> Err("Manifest not provided in the request")]}
    ELSE { IF d.err # NoErr THEN [pending |-> TRUE, err |-> d.err]
           ELSE [pending |-> pendingLoop(d.infos, FALSE), err |-> NoErr]
           : d \in getManifestDetails(manifest) }

(* ---------------- lambda.go ---------------- *)

checklambdaState(x) ==
    LET x1 == Call(x, "GetFunction")
    IN {[state |-> x.fn, err |-> NoErr,
         x |-> [x1 EXCEPT !.seen = Append(@, IF x.fn = StateActive THEN "Active" ELSE "other")]],
        [state |-> "", err |-> Err("AWSError"), x |-> [x1 EXCEPT !.seen = Append(@, "error")]]}

ResourceConflict == Err("ResourceConflictException")

\* the service's CreateFunction: a function is made only under a name that is free;
\* a name taken meanwhile (by another release with the same target) is a conflict
lambdaCreate(x) ==
    {[err |-> Err("AWSError"), x |-> x]}
    \cup IF x.fn = StateNotFound
         THEN {[err |-> NoErr, x |-> [x EXCEPT !.fn = s, !.created = @ + 1]] :
                    s \in {StatePending, StateActive}}
              \cup {[err |-> ResourceConflict, x |-> [x EXCEPT !.fn = s, !.conflict = TRUE]] :
                    s \in {StatePending, StateActive}}
         ELSE {[err |-> ResourceConflict, x |-> [x EXCEPT !.conflict = TRUE]]}

\* mutant: a create conflict is an error like any other
createFunction_ConflictIsError(x) ==
    {[err |-> Err("getZip"), x |-> x]}
    \cup { IF r.err # NoErr THEN [err |-> Err("AWSError"), x |-> r.x] ELSE r
           : r \in lambdaCreate(Call(x, "CreateFunction")) }

createFunction(x) ==
    {[err |-> Err("getZip"), x |-> x]}
    \cup { IF r.err # NoErr
           THEN IF r.err = ResourceConflict
                THEN [err |-> NoErr, x |-> r.x]     \* the function exists already
                ELSE [err |-> Err("AWSError"), x |-> r.x]
           ELSE r
           : r \in lambdaCreate(Call(x, "CreateFunction")) }

ResourceNotFound == Err("ResourceNotFoundException")

\* the service's DeleteFunction; del is what became of the request; the function
\* may have been removed meanwhile (by the teardown of another release)
lambdaDelete(x) ==
    IF x.fn = StateNotFound
    THEN {[err |-> ResourceNotFound, x |-> [x EXCEPT !.del = "notfound"]]}
    ELSE {[err |-> NoErr, x |-> [x EXCEPT !.fn = StateNotFound, !.del = "deleted"]],
          [err |-> ResourceNotFound, x |-> [x EXCEPT !.fn = StateNotFound, !.del = "notfound"]],
          [err |-> Err("AccessDenied"), x |-> [x EXCEPT !.del = "error"]]}

\* mutant: a function that is not there is an error like any other
deleteFunction_NotFoundFatal(x) ==
    { IF r.err # NoErr THEN [err |-> Err("AWSError"), x |-> r.x] ELSE r
      : r \in lambdaDelete(Call(x, "DeleteFunction")) }

deleteFunction(x) ==
    { IF r.err # NoErr
      THEN IF r.err = ResourceNotFound      \* functionNotExists
           THEN [err |-> NoErr, x |-> r.x]
           ELSE [err |-> Err("AWSError"), x |-> r.x]
      ELSE r
      : r \in lambdaDelete(Call(x, "DeleteFunction")) }

\* getFunction: the deployed configuration, with the deployed code fingerprint
getFunction(x) ==
    LET x1 == Call(x, "GetFunction")
    IN {[err |-> NoErr, sha |-> h, x |-> x1] : h \in {"local", "stale"}}
       \cup {[err |-> Err("GetFunction"), sha |-> "", x |-> x1]}

updateConfiguration(x) ==
    LET x1 == Call(x, "UpdateFunctionConfiguration")
    IN {[err |-> NoErr, x |-> x1], [err |-> Err("AWSError"), x |-> x1]}

\* mutant: the configuration is refreshed only after a code update
updateFunction_ConfigOnlyWithCode(x, deployedSha) ==
    {[err |-> Err("getZip"), x |-> x]}
    \cup IF "local" # deployedSha
         THEN LET x1 == Call(x, "UpdateFunctionCode")
              IN {[err |-> Err("AWSError"), x |-> [x1 EXCEPT !.codeFailed = TRUE]]}
                 \cup updateConfiguration(x1)
         ELSE {[err |-> NoErr, x |-> x]}

\* updateFunction: "local" is the hash of the zip of this build
updateFunction(x, deployedSha) ==
    {[err |-> Err("getZip"), x |-> x]}
    \cup IF "local" # deployedSha
         THEN LET x1 == Call(x, "UpdateFunctionCode")
              IN {[err |-> Err("AWSError"), x |-> [x1 EXCEPT !.codeFailed = TRUE]]}
                 \cup updateConfiguration(x1)
         ELSE updateConfiguration(x)

\* time.Sleep between two state queries: the function's state moves on meanwhile
Sleep(x) == {[x EXCEPT !.fn = s] : s \in LambdaStates}

\* mutant: the loop runs once more than retryCount
RECURSIVE stabilizeLoop_OffByOne(_, _)
stabilizeLoop_OffByOne(x, count) ==
    IF count <= retryCount
    THEN UNION { IF r.err # NoErr THEN {[u |-> FALSE, err |-> r.err, x |-> r.x]}
                 ELSE IF r.state = StateActive THEN {[u |-> TRUE, err |-> NoErr, x |-> r.x]}
                 ELSE UNION { stabilizeLoop_OffByOne(x2, count + 1) : x2 \in Sleep(r.x) }
                 : r \in checklambdaState(x) }
    ELSE {[u |-> FALSE, err |-> NoErr, x |-> x]}

\* the bounded retry loop: for count < retryCount { query; Active -> true; sleep; count++ }
RECURSIVE stabilizeLoop(_, _)
stabilizeLoop(x, count) ==
    IF count < retryCount
    THEN UNION { IF r.err # NoErr THEN {[u |-> FALSE, err |-> r.err, x |-> r.x]}
                 ELSE IF r.state = StateActive THEN {[u |-> TRUE, err |-> NoErr, x |-> r.x]}
                 ELSE UNION { stabilizeLoop(x2, count + 1) : x2 \in Sleep(r.x) }
                 : r \in checklambdaState(x) }
    ELSE {[u |-> FALSE, err |-> NoErr, x |-> x]}

stateNotFound(x) ==
    UNION { IF k.err # NoErr THEN {[u |-> FALSE, err |-> k.err, x |-> k.x]}
            ELSE stabilizeLoop(k.x, 0)
            : k \in createFunction(x) }

stateActive(x) ==
    UNION { IF g.err # NoErr THEN {[u |-> FALSE, err |-> g.err, x |-> g.x]}
            ELSE { IF k.err # NoErr THEN [u |-> FALSE, err |-> k.err, x |-> k.x]
                   ELSE [u |-> TRUE, err |-> NoErr, x |-> k.x]
                   : k \in updateFunction([g.x EXCEPT !.sha = g.sha], g.sha) }
            : g \in getFunction(x) }

\* mutant: a Failed connector is waited for like a Pending one
lambdaSwitch_FailedAsPending(state, x) ==
    CASE state = StateNotFound -> stateNotFound(x)
      [] state = StateActive -> stateActive(x)
      [] state \in {StatePending, StateFailed} -> stabilizeLoop(x, 0)
      [] OTHER -> {[u |-> FALSE, err |-> <<NotDesiredStateText, state>>, x |-> x]}

lambdaSwitch(state, x) ==
    CASE state = StateNotFound -> stateNotFound(x)
      [] state = StateActive -> stateActive(x)
      [] state = StatePending -> stabilizeLoop(x, 0)
      [] OTHER -> {[u |-> FALSE, err |-> <<NotDesiredStateText, state>>, x |-> x]}

\* what the invocation remembers of the outcome of initializeLambda
lamOf(r) == IF r.err # NoErr THEN "error" ELSE IF r.u THEN "ready" ELSE "notready"

initializeLambda(x) ==
    LET rs == UNION { IF r.err # NoErr THEN {[u |-> FALSE, err |-> r.err, x |-> r.x]}
                      ELSE lambdaSwitch(r.state, [r.x EXCEPT !.first = r.state])
                      : r \in checklambdaState(x) }
    IN { [r EXCEPT !.x.lam = lamOf(r)] : r \in rs }

\* mutant: the connector answers a readiness check with the release status
HandleRequest_StatusForPending(x, action) ==
    IF DecodeID(x.model.ID) # NoErr
    THEN {[err |-> DecodeID(x.model.ID), val |-> IF action = GetPendingAction THEN FALSE ELSE "", x |-> x]}
    ELSE CASE action = InstallReleaseAction -> HelmInstall(x)
           [] action = CheckReleaseAction -> HelmStatus(x)
           [] action = GetPendingAction -> HelmStatus(x)
           [] action = GetResourcesAction -> GetKubeResources(x)
           [] action = UpdateReleaseAction -> HelmUpgrade(x)
           [] action = UninstallReleaseAction -> HelmUninstall(x)
           [] action = ListReleaseAction -> HelmList(x)
           [] OTHER -> {[err |-> Err("Unhandled stage"), val |-> "", x |-> x]}

\* HandleRequest of the connector: the same operation, run inside the VPC with
\* the clients built from the kubeconfig of the event (the error of building
\* them is not looked at by the handler; the clients are taken as built)
HandleRequest(x, action) ==
    IF DecodeID(x.model.ID) # NoErr
    THEN {[err |-> DecodeID(x.model.ID), val |-> IF action = GetPendingAction THEN FALSE ELSE "", x |-> x]}
    ELSE CASE action = InstallReleaseAction -> HelmInstall(x)
           [] action = CheckReleaseAction -> HelmStatus(x)
           [] action = GetPendingAction -> CheckPendingResources(x)
           [] action = GetResourcesAction -> GetKubeResources(x)
           [] action = UpdateReleaseAction -> HelmUpgrade(x)
           [] action = UninstallReleaseAction -> HelmUninstall(x)
           [] action = ListReleaseAction -> HelmList(x)
           [] OTHER -> {[err |-> Err("Unhandled stage"), val |-> "", x |-> x]}

\* the release name HandleRequest hands to the operation: the one decoded from
\* the ID for status, upgrade and uninstall, the one of the configuration for
\* install and list, the one of the release data for the manifest checks
HandleRequestName(m, action) ==
    CASE DecodeID(m.ID) # NoErr -> <<>>
      [] action \in {CheckReleaseAction, UpdateReleaseAction, UninstallReleaseAction} ->
            DecodedName(m.ID)
      [] action \in {InstallReleaseAction, ListReleaseAction} -> getReleaseName(m.Name)
      [] action \in {GetPendingAction, GetResourcesAction} -> m.Name
      [] OTHER -> <<>>

\* an error of the SDK (awserr.Error) is <<"awserr", code, message>>, any other
\* error is its text
IsAwsErr(e) == Len(e) = 3 /\ e[1] = "awserr"

\* err.Error()
ErrorText(e) == IF IsAwsErr(e) THEN <<e[2], ": ", e[3]>> ELSE e

\* AWSError: an SDK error is written anew from its code, message and cause (none
\* here), any other error is a new error with the same text
AWSError(e) ==
    IF IsAwsErr(e) THEN <<"AWS Error: ", e[2], " - ", e[3], " ", "<nil>">> ELSE ErrorText(e)

\* what svc.Invoke can fail with before the connector runs
TransportErrors == {<<"awserr", "RequestError", "send request failed">>, <<"connection reset">>}

\* what invokeLambda has seen last: the kind of outcome, the error or payload it
\* was given, and whether it returned a response object
Relayed(kind, raw, resp) == [kind |-> kind, raw |-> raw, resp |-> resp]

NoRelay == Relayed("none", <<>>, FALSE)

\* mutant: a transport error is taken for an empty response
invokeLambda_TransportIgnored(x, action) ==
    LET x1 == Call(x, "Invoke")
        zero == IF action = GetPendingAction THEN FALSE ELSE ""
    IN {[err |-> NoErr, val |-> zero, x |-> [x1 EXCEPT !.relay = Relayed("transport", e, FALSE)]]
           : e \in TransportErrors}
       \cup UNION { IF r.err # NoErr
                    THEN {[err |-> <<"[errorType] ">> \o r.err, val |-> zero,
                           x |-> [r.x EXCEPT !.relay = Relayed("remote", r.err, FALSE)]],
                          [err |-> <<"[Unhandled] ", "payload">>, val |-> zero,
                           x |-> [r.x EXCEPT !.relay = Relayed("payload", <<"payload">>, FALSE)]]}
                    ELSE {[r EXCEPT !.x.relay = Relayed("ok", <<>>, TRUE)]}
                    : r \in HandleRequest(x1, action) }

\* invokeLambda: a transport error goes through AWSError; a remote execution error
\* is unwrapped into a local error from its type and message, or from the payload
\* when that is not the JSON of an error; no response is returned with an error;
\* the payload of a run without error is the connector's own LambdaResponse
invokeLambda(x, action) ==
    LET x1 == Call(x, "Invoke")
        zero == IF action = GetPendingAction THEN FALSE ELSE ""
    IN {[err |-> AWSError(e), val |-> zero, x |-> [x1 EXCEPT !.relay = Relayed("transport", e, FALSE)]]
           : e \in TransportErrors}
       \cup UNION { IF r.err # NoErr
                    THEN {[err |-> <<"[errorType] ">> \o r.err, val |-> zero,
                           x |-> [r.x EXCEPT !.relay = Relayed("remote", r.err, FALSE)]],
                          [err |-> <<"[Unhandled] ", "payload">>, val |-> zero,
                           x |-> [r.x EXCEPT !.relay = Relayed("payload", <<"payload">>, FALSE)]]}
                    ELSE {[r EXCEPT !.x.relay = Relayed("ok", <<>>, TRUE)]}
                    : r \in HandleRequest(x1, action) }

(* ---------------- action.go: the wrappers ---------------- *)

helmStatusWrapper(x, vpc) ==
    IF vpc THEN invokeLambda(x, CheckReleaseAction) ELSE HelmStatus(x)

helmInstallWrapper(x, vpc) ==
    IF vpc THEN invokeLambda(x, InstallReleaseAction) ELSE HelmInstall(x)

helmUpgradeWrapper(x, vpc) ==
    IF vpc THEN invokeLambda(x, UpdateReleaseAction) ELSE HelmUpgrade(x)

helmDeleteWrapper(x, vpc) ==
    IF vpc THEN invokeLambda(x, UninstallReleaseAction) ELSE HelmUninstall(x)

\* the trail the connector reports back with its response
RemoteTrails == {<<>>, <<"remote diagnostic">>}

kubePendingWrapper(x, vpc) ==
    IF vpc
    THEN UNION { IF r.err # NoErr THEN {[r EXCEPT !.val = TRUE]}
                 ELSE {[r EXCEPT !.x.lke = tr] : tr \in RemoteTrails}
                 : r \in invokeLambda(x, GetPendingAction) }
    ELSE CheckPendingResources(x)

kubeResourcesWrapper(x, vpc) ==
    IF vpc THEN invokeLambda(x, GetResourcesAction) ELSE GetKubeResources(x)

helmListWrapper(x, vpc) ==
    IF vpc THEN invokeLambda(x, ListReleaseAction) ELSE HelmList(x)

\* the release name the driver hands to the operation it runs itself: the name
\* of the model for status, the one decoded from the ID for upgrade and
\* uninstall, the one of the configuration for install and list, the one of the
\* release data for the manifest checks
wrapperName(m, action) ==
    CASE action = CheckReleaseAction -> m.Name
      [] action \in {UpdateReleaseAction, UninstallReleaseAction} ->
            IF DecodeID(m.ID) # NoErr THEN <<>> ELSE DecodedName(m.ID)
      [] action \in {InstallReleaseAction, ListReleaseAction} -> getReleaseName(m.Name)
      [] action \in {GetPendingAction, GetResourcesAction} -> m.Name
      [] OTHER -> <<>>

(* ---------------- aws.go ---------------- *)

\* getVpcConfig: nothing to derive without a cluster locator or with an explicit
\* configuration; a public endpoint needs no connector; a private one needs the
\* NAT'ed subnets
getVpcConfig(x) ==
    IF ~x.model.ClusterID \/ x.model.VPCConfiguration
    THEN {[vpc |-> FALSE, err |-> NoErr]}
    ELSE {[vpc |-> FALSE, err |-> Err("DescribeCluster")]}
         \cup CASE cluster = "public" -> {[vpc |-> FALSE, err |-> NoErr]}
                [] cluster = "noNat" -> {[vpc |-> FALSE, err |-> Err("no subnets with NAT Gateway found")]}
                [] OTHER -> {[vpc |-> TRUE, err |-> NoErr],
                             [vpc |-> FALSE, err |-> Err("DescribeSubnets")]}

(* ---------------- aws.go: the subnets behind a NAT gateway ---------------- *)

AnyCidr == "0.0.0.0/0"

\* the route table DescribeRouteTables finds for a subnet: the one associated
\* with it, else the main table of the VPC; a table is the sequence of the
\* targets of its routes
RouteTableOf(subnet, main) == IF subnet.table # <<>> THEN subnet.table[1] ELSE main

\* for _, route := range resp.RouteTables[0].Routes: one append per NAT route
RECURSIVE natRoutes(_, _)
natRoutes(routes, id) ==
    IF routes = <<>> THEN <<>>
    ELSE (IF routes[1] = "nat" THEN <<id>> ELSE <<>>) \o natRoutes(Tail(routes), id)

RECURSIVE filterLoop(_, _)
filterLoop(subnets, main) ==
    IF subnets = <<>> THEN <<>>
    ELSE natRoutes(RouteTableOf(subnets[1], main), subnets[1].id) \o filterLoop(Tail(subnets), main)

filterNattedSubnets(subnets, main) ==
    {[filtered |-> <<>>, err |-> Err("DescribeSubnets")],
     [filtered |-> <<>>, err |-> Err("DescribeRouteTables")],
     [filtered |-> filterLoop(subnets, main), err |-> NoErr]}

\* mutant: any CIDR of the list may be the open one
getVpcConfigOf_AnyCidr(m, c) ==
    IF ~m.ClusterID \/ m.VPCConfiguration
    THEN {[vpc |-> <<>>, err |-> NoErr]}
    ELSE {[vpc |-> <<>>, err |-> Err("DescribeCluster")]}
         \cup IF c.EndpointPublicAccess /\ \E i \in DOMAIN c.PublicAccessCidrs : c.PublicAccessCidrs[i] = AnyCidr
              THEN {[vpc |-> <<>>, err |-> NoErr]}
              ELSE { IF r.err # NoErr THEN [vpc |-> <<>>, err |-> r.err]
                     ELSE IF r.filtered = <<>>
                     THEN [vpc |-> <<>>, err |-> Err("no subnets with NAT Gateway found")]
                     ELSE [vpc |-> <<[SubnetIds |-> r.filtered]>>, err |-> NoErr]
                     : r \in filterNattedSubnets(c.SubnetIds, c.main) }

\* getVpcConfig on the cluster c as EKS and EC2 describe it
getVpcConfigOf(m, c) ==
    IF ~m.ClusterID \/ m.VPCConfiguration
    THEN {[vpc |-> <<>>, err |-> NoErr]}
    ELSE {[vpc |-> <<>>, err |-> Err("DescribeCluster")]}
         \cup IF c.EndpointPublicAccess /\ c.PublicAccessCidrs[1] = AnyCidr
              THEN {[vpc |-> <<>>, err |-> NoErr]}
              ELSE { IF r.err # NoErr THEN [vpc |-> <<>>, err |-> r.err]
                     ELSE IF r.filtered = <<>>
                     THEN [vpc |-> <<>>, err |-> Err("no subnets with NAT Gateway found")]
                     ELSE [vpc |-> <<[SubnetIds |-> r.filtered]>>, err |-> NoErr]
                     : r \in filterNattedSubnets(c.SubnetIds, c.main) }

(* ---------------- action.go ---------------- *)

\* mutant: after the teardown the delete asks to be polled again at UninstallRelease
lambdaDestroy_PollAgain(x) ==
    IF ~x.model.VPCConfiguration
    THEN {Ret(x, CompleteStage, NoErr)}
    ELSE { IF r.err # NoErr THEN Ret(r.x, NoStage, r.err) ELSE Ret(r.x, UninstallRelease, NoErr)
           : r \in deleteFunction(x) }

\* mutant: the connector is kept while another release depends on it
lambdaDestroy_RefCounted(x) ==
    IF ~x.model.VPCConfiguration \/ dependents > 0
    THEN {Ret(x, CompleteStage, NoErr)}
    ELSE { IF r.err # NoErr THEN Ret(r.x, NoStage, r.err) ELSE Ret(r.x, CompleteStage, NoErr)
           : r \in deleteFunction(x) }

lambdaDestroy(x) ==
    IF ~x.model.VPCConfiguration
    THEN {Ret(x, CompleteStage, NoErr)}
    ELSE { IF r.err # NoErr THEN Ret(r.x, NoStage, r.err) ELSE Ret(r.x, CompleteStage, NoErr)
           : r \in deleteFunction(x) }

installCase(x, vpc) ==
    {Ret(x, NoStage, Err("processValues"))}
    \cup IF DecodeID(x.model.ID) # NoErr
         THEN {Ret(x, NoStage, DecodeID(x.model.ID))}
         ELSE { IF r.err # NoErr THEN Ret(r.x, NoStage, r.err)
                ELSE Ret(r.x, ReleaseStabilize, NoErr)
                : r \in helmInstallWrapper([x EXCEPT !.model.Name = DecodedName(x.model.ID)], vpc) }

updateCase(x, vpc) ==
    {Ret(x, NoStage, Err("processValues"))}
    \cup IF DecodeID(x.model.ID) # NoErr
         THEN {Ret(x, NoStage, DecodeID(x.model.ID))}
         ELSE { IF r.err # NoErr THEN Ret(r.x, NoStage, r.err)
                ELSE Ret([r.x EXCEPT !.model.Name = DecodedName(x.model.ID)], ReleaseStabilize, NoErr)
                : r \in helmUpgradeWrapper(x, vpc) }

\* mutant: the connector is torn down whatever the uninstall returned
uninstallCase_DestroyAlways(x, vpc) ==
    IF DecodeID(x.model.ID) # NoErr
    THEN {Ret(x, NoStage, DecodeID(x.model.ID))}
    ELSE UNION { lambdaDestroy(r.x) : r \in helmDeleteWrapper(x, vpc) }

uninstallCase(x, vpc) ==
    IF DecodeID(x.model.ID) # NoErr
    THEN {Ret(x, NoStage, DecodeID(x.model.ID))}
    ELSE UNION { IF r.err # NoErr THEN {Ret(r.x, NoStage, r.err)}
                 ELSE lambdaDestroy(r.x)
                 : r \in helmDeleteWrapper(x, vpc) }

actionSwitch(x, action, vpc) ==
    CASE action = InstallReleaseAction -> installCase(x, vpc)
      [] action = UpdateReleaseAction -> updateCase(x, vpc)
      [] action = UninstallReleaseAction -> uninstallCase(x, vpc)
      [] OTHER -> {Ret(x, NoStage, <<UnhandledStageText, action>>)}

\* mutant: a connector that did not stabilize is used all the same
initializeBridge_IgnoreNotReady(x, action) ==
    IF x.model.VPCConfiguration
    THEN {Ret(x, NoStage, Err("getLocalKubeConfig"))}
         \cup UNION { IF r.err # NoErr THEN {Ret(r.x, NoStage, r.err)}
                      ELSE actionSwitch(r.x, action, TRUE)
                      : r \in initializeLambda(x) }
    ELSE actionSwitch(x, action, FALSE)

\* initialize, from the connector check on
initializeBridge(x, action) ==
    IF x.model.VPCConfiguration
    THEN {Ret(x, NoStage, Err("getLocalKubeConfig"))}
         \cup UNION { IF r.err # NoErr THEN {Ret(r.x, NoStage, r.err)}
                      ELSE IF ~r.u THEN {Ret(r.x, LambdaStabilize, NoErr)}
                      ELSE actionSwitch(r.x, action, TRUE)
                      : r \in initializeLambda(x) }
    ELSE actionSwitch(x, action, FALSE)

\* mutant: the step goes on to the real work right after generating the ID
initializeID_NoEarlyReturn(x0, action) ==
    LET x == [x0 EXCEPT !.model.Name = getReleaseName(@)]
    IN {Ret(x0, NoStage, Err("getChartDetails"))}
       \cup IF x.model.ID = <<>>
            THEN LET g == generateID(x.model)
                 IN IF g.err # NoErr THEN {Ret(x, NoStage, g.err)}
                    ELSE initializeBridge([x EXCEPT !.model.ID = g.id], action)
            ELSE initializeBridge(x, action)

\* initialize, from the chart details on: the physical ID is generated when absent
\* mutant: the ID is generated on every call
initializeID_AlwaysGenerate(x0, action) ==
    LET x == [x0 EXCEPT !.model.Name = getReleaseName(@)]
    IN {Ret(x0, NoStage, Err("getChartDetails"))}
       \cup LET g == generateID(x.model)
            IN IF g.err # NoErr THEN {Ret(x, NoStage, g.err)}
               ELSE IF x.model.ID = <<>> THEN {Ret([x EXCEPT !.model.ID = g.id], InitStage, NoErr)}
               ELSE initializeBridge([x EXCEPT !.model.ID = g.id], action)

initializeID(x0, action) ==
    LET x == [x0 EXCEPT !.model.Name = getReleaseName(@)]
    IN {Ret(x0, NoStage, Err("getChartDetails"))}
       \cup IF x.model.ID = <<>>
            THEN LET g == generateID(x.model)
                 IN IF g.err # NoErr THEN {Ret(x, NoStage, g.err)}
                    ELSE {Ret([x EXCEPT !.model.ID = g.id], InitStage, NoErr)}
            ELSE initializeBridge(x, action)

initializeVpc(x, action) ==
    {Ret(x, NoStage, Err("NewClients"))}
    \cup IF ~x.model.VPCConfiguration /\ x.model.ClusterID
         THEN UNION { IF v.err # NoErr THEN {Ret(x, NoStage, v.err)}
                      ELSE initializeID([x EXCEPT !.model.VPCConfiguration = v.vpc], action)
                      : v \in getVpcConfig(x) }
         ELSE initializeID(x, action)

initialize(x0, action) == initializeVpc([x0 EXCEPT !.step = <<"initialize", action>>], action)

\* mutant: a deployed release is complete whatever the readiness check says
statusSwitch_IgnorePending(x, status, successStage, vpc) ==
    CASE status = StatusDeployed ->
            { IF p.err # NoErr THEN Ret([p.x EXCEPT !.pending = "error"], NoStage, p.err)
              ELSE Ret([p.x EXCEPT !.pending = IF p.val THEN "true" ELSE "false"], successStage, NoErr)
              : p \in kubePendingWrapper(x, vpc) }
      [] status \in {StatusPendingInstall, StatusPendingUpgrade} ->
            {Ret([x EXCEPT !.lke = pushLastKnownError(@, status)], ReleaseStabilize, NoErr)}
      [] OTHER ->
            {Ret([x EXCEPT !.lke = pushLastKnownError(@, status)], NoStage, Err(ReleaseFailedText))}

\* checkReleaseStatus, the switch on the status just queried
statusSwitch(x, status, successStage, vpc) ==
    CASE status = StatusDeployed ->
            { IF p.err # NoErr THEN Ret([p.x EXCEPT !.pending = "error"], NoStage, p.err)
              ELSE IF p.val THEN Ret([p.x EXCEPT !.pending = "true"], ReleaseStabilize, NoErr)
              ELSE Ret([p.x EXCEPT !.pending = "false"], successStage, NoErr)
              : p \in kubePendingWrapper(x, vpc) }
      [] status \in {StatusPendingInstall, StatusPendingUpgrade} ->
            {Ret([x EXCEPT !.lke = pushLastKnownError(@, status)], ReleaseStabilize, NoErr)}
      [] OTHER ->
            {Ret([x EXCEPT !.lke = pushLastKnownError(@, status)], NoStage, Err(ReleaseFailedText))}

checkStatus(x, successStage, vpc) ==
    UNION { IF s.err # NoErr THEN {Ret(s.x, NoStage, s.err)}
            ELSE statusSwitch([s.x EXCEPT !.status = s.val], s.val, successStage, vpc)
            : s \in helmStatusWrapper(x, vpc) }

checkReleaseBridge(x, successStage) ==
    IF x.model.VPCConfiguration
    THEN {Ret(x, NoStage, Err("getLocalKubeConfig"))}
         \cup UNION { IF r.err # NoErr THEN {Ret(r.x, NoStage, r.err)}
                      ELSE IF ~r.u THEN {Ret(r.x, LambdaStabilize, NoErr)}
                      ELSE checkStatus(r.x, successStage, TRUE)
                      : r \in initializeLambda(x) }
    ELSE checkStatus(x, successStage, FALSE)

checkReleaseVpc(x, successStage) ==
    {Ret(x, NoStage, Err("NewClients"))}
    \cup IF ~x.model.VPCConfiguration /\ x.model.ClusterID
         THEN UNION { IF v.err # NoErr THEN {Ret(x, NoStage, v.err)}
                      ELSE checkReleaseBridge([x EXCEPT !.model.VPCConfiguration = v.vpc], successStage)
                      : v \in getVpcConfig(x) }
         ELSE checkReleaseBridge(x, successStage)

checkReleaseStatus(x0, successStage) ==
    checkReleaseVpc([x0 EXCEPT !.step = <<"checkReleaseStatus">>], successStage)

(* ---------------- resource.go ---------------- *)

\* if currentModel.Name == nil { currentModel.Name = getReleaseNameContext(req.CallbackContext) }
nameFromContext(x) ==
    IF x.model.Name = <<>> THEN [x EXCEPT !.model.Name = getReleaseNameContext(x.ctx)] ELSE x

CreateHandler(x, stage) ==
    CASE stage \in {InitStage, LambdaStabilize} -> initialize(nameFromContext(x), InstallReleaseAction)
      [] stage = ReleaseStabilize -> checkReleaseStatus(x, CompleteStage)
      [] OTHER -> {Ret(x, NoStage, <<UnhandledStageText, stage>>)}

UpdateHandler(x, stage) ==
    CASE stage \in {InitStage, LambdaStabilize} -> initialize(nameFromContext(x), UpdateReleaseAction)
      [] stage = ReleaseStabilize -> checkReleaseStatus(x, CompleteStage)
      [] OTHER -> {Ret(x, NoStage, <<UnhandledStageText, stage>>)}

\* mutant: delete does not take up an operation left at ReleaseStabilize
DeleteHandler_NoReleaseStabilize(x, stage) ==
    CASE stage \in {InitStage, LambdaStabilize, UninstallRelease} ->
            initialize(x, UninstallReleaseAction)
      [] OTHER -> {Ret(x, NoStage, <<UnhandledStageText, stage>>)}

DeleteHandler(x, stage) ==
    CASE stage \in {InitStage, LambdaStabilize, UninstallRelease, ReleaseStabilize} ->
            initialize(x, UninstallReleaseAction)
      [] OTHER -> {Ret(x, NoStage, <<UnhandledStageText, stage>>)}

readStatus(x, vpc) ==
    { IF s.err # NoErr THEN Ret(s.x, NoStage, s.err) ELSE Ret(s.x, CompleteStage, NoErr)
      : s \in helmStatusWrapper(x, vpc) }

readBridge(x) ==
    IF x.model.VPCConfiguration
    THEN {Ret(x, NoStage, Err("getLocalKubeConfig"))}
         \cup UNION { IF r.err # NoErr THEN {Ret(r.x, NoStage, r.err)}
                      ELSE IF ~r.u THEN {Ret(r.x, NoStage, Err(NotStabilizedText))}
                      ELSE readStatus(r.x, TRUE)
                      : r \in initializeLambda(x) }
    ELSE readStatus(x, FALSE)

ReadHandler(x) ==
    IF DecodeID(x.model.ID) # NoErr
    THEN {[ev |-> emptyEvent, rawErr |-> DecodeID(x.model.ID), x |-> x,
           next |-> NoStage, err |-> NoErr]}
    ELSE {Ret(x, NoStage, Err("NewClients"))}
         \cup IF ~x.model.VPCConfiguration /\ x.model.ClusterID
              THEN UNION { IF v.err # NoErr THEN {Ret(x, NoStage, v.err)}
                           ELSE readBridge([x EXCEPT !.model.VPCConfiguration = v.vpc,
                                                     !.model.Name = DecodedName(x.model.ID)])
                           : v \in getVpcConfig(x) }
              ELSE readBridge([x EXCEPT !.model.Name = DecodedName(x.model.ID)])

\* mutant: List does what Read does
ListHandler_AsRead(x) == ReadHandler(x)

\* List: not implemented, an empty event and an error
ListHandler(x) ==
    {[ev |-> emptyEvent, rawErr |-> Err("not implemented: List"), x |-> x,
      next |-> NoStage, err |-> NoErr]}

(* ---------------- the invocations ---------------- *)

Min(a, b) == IF a < b THEN a ELSE b

\* the operation is still being polled: no terminal outcome has been returned
Live == rawErr = NoErr /\ result.OperationStatus \in {"", InProgress}

\* the context an invocation starts from; start is the StartTime environment
\* variable; an invocation lasts seconds, which the clock (minutes) does not resolve.
\* calls, lam, first, seen, status, pending, notFound, step record what the invocation does
Begin(start) ==
    [model |-> model, fn |-> fn, release |-> release, lke |-> LastKnownErrors,
     start |-> start, t |-> now, ctx |-> CallbackContext,
     calls |-> <<>>, lam |-> "none", first |-> "none", seen |-> <<>>,
     status |-> "", pending |-> "none", notFound |-> FALSE, step |-> <<>>,
     sha |-> "none", codeFailed |-> FALSE, conflict |-> FALSE, created |-> 0,
     del |-> "none", relay |-> NoRelay]

NoInv ==
    [invoked |-> FALSE, stage |-> "", idIn |-> FALSE, lkeIn |-> <<>>, elapsed |-> 0,
     calls |-> <<>>, lam |-> "none", first |-> "none", seen |-> <<>>,
     status |-> "", pending |-> "none", notFound |-> FALSE, step |-> <<>>,
     sha |-> "none", codeFailed |-> FALSE, conflict |-> FALSE, created |-> 0,
     del |-> "none", relay |-> NoRelay, ctxIn |-> <<>>,
     next |-> "", err |-> NoErr]

issued(cs) == Cardinality({i \in DOMAIN cs : cs[i] \in {"HelmInstall", "HelmUpgrade"}})

\* the handler has returned o: the caller records the event, the model and the token
Return(o, stage) ==
    /\ Len(o.x.lke) <= MaxDiag
    /\ result' = o.ev
    /\ rawErr' = o.rawErr
    /\ inv' = [invoked |-> TRUE, stage |-> stage, idIn |-> model.ID # <<>>,
               lkeIn |-> LastKnownErrors, elapsed |-> now - o.x.start,
               calls |-> o.x.calls, lam |-> o.x.lam, first |-> o.x.first, seen |-> o.x.seen,
               status |-> o.x.status, pending |-> o.x.pending, notFound |-> o.x.notFound,
               step |-> o.x.step, sha |-> o.x.sha, codeFailed |-> o.x.codeFailed,
               conflict |-> o.x.conflict, created |-> o.x.created, del |-> o.x.del,
               relay |-> o.x.relay, ctxIn |-> CallbackContext,
               next |-> o.next, err |-> o.err]
    /\ model' = o.x.model
    /\ fn' = o.x.fn
    /\ release' = o.x.release
    /\ LastKnownErrors' = o.x.lke
    /\ StartTime' = o.x.start
    /\ CallbackContext' = IF o.ev.OperationStatus = InProgress
                          THEN <<[Stage |-> o.ev.Stage, StartTime |-> o.ev.StartTime,
                                  Name |-> o.ev.Name]>>
                          ELSE <<>>
    /\ installs' = Min(installs + issued(o.x.calls), MaxInstalls)
    /\ seenRS' = (seenRS \/ (o.ev.OperationStatus = InProgress /\ o.ev.Stage = ReleaseStabilize))
    /\ UNCHANGED <<op, cluster, now, dependents, pin, pout, sideVars>>

Create ==
    /\ op = "Create" /\ Live
    /\ LET stage == getStage(CallbackContext)
           start == getStartTime(CallbackContext, now)
       IN \E o \in CreateHandler(Begin(start), stage) : Return(o, stage)

Update ==
    /\ op = "Update" /\ Live
    /\ LET stage == getStage(CallbackContext)
           start == getStartTime(CallbackContext, now)
       IN \E o \in UpdateHandler(Begin(start), stage) : Return(o, stage)

Delete ==
    /\ op = "Delete" /\ Live
    /\ LET stage == getStage(CallbackContext)
           start == getStartTime(CallbackContext, now)
       IN \E o \in DeleteHandler(Begin(start), stage) : Return(o, stage)

\* Read does not look at the resume token: StartTime is what the process holds
Read ==
    /\ op = "Read" /\ Live /\ ~inv.invoked
    /\ \E o \in ReadHandler(Begin(StartTime)) : Return(o, "")

(* ---------------- the environment ---------------- *)

\* time passes between two polls (the clock starts with the operation's first
\* poll; a Read may come to a process that has been up for a while)
Tick ==
    /\ Live
    /\ inv.invoked \/ op = "Read"
    /\ now + TickStep <= MaxNow
    /\ now' = now + TickStep
    /\ UNCHANGED <<op, model, CallbackContext, StartTime, LastKnownErrors, cluster, fn,
                   release, result, rawErr, inv, installs, seenRS, dependents, pin, pout, sideVars>>

\* the Lambda service moves the connector between its states, or someone removes it
EnvLambda ==
    /\ Live
    /\ model.VPCConfiguration \/ cluster = "private"
    /\ \E s \in LambdaStates \ {fn} : fn' = s
    /\ UNCHANGED <<op, model, CallbackContext, StartTime, LastKnownErrors, now, cluster,
                   release, result, rawErr, inv, installs, seenRS, dependents, pin, pout, sideVars>>

\* the cluster settles a pending release, or the release is removed out of band
EnvRelease ==
    /\ Live
    /\ release # ReleaseAbsent
    /\ \E s \in {StatusDeployed, StatusFailed, ReleaseAbsent} \ {release} : release' = s
    /\ UNCHANGED <<op, model, CallbackContext, StartTime, LastKnownErrors, now, cluster,
                   fn, result, rawErr, inv, installs, seenRS, dependents, pin, pout, sideVars>>

(* ---------------- initial states ---------------- *)

\* no utility function is being called on its own
NoCall == [kind |-> "none"]

\* the executions of addHelmRepoUpdate
Procs == 1..MaxProcs

\* the repositories an execution may add
Entries == {"stable", "bitnami"}

\* pc is the statement an execution stands at, f its repo.File, tasks its refresh
\* tasks, locked whether its Unlock is deferred, ret what it has returned
IdleProc ==
    [pc |-> "idle", name |-> "", f |-> {}, tasks |-> <<>>, locked |-> FALSE, ret |-> <<>>]

\* nothing happens in the cluster's namespaces and on the repository config
SideIdle ==
    /\ namespaces = {}
    /\ repoFile = <<>>
    /\ lockHolder = 0
    /\ indexes = [e \in Entries |-> 0]
    /\ proc = [p \in Procs |-> IdleProc]

\* the desired specs: a locator (or none), an explicit isolation config or not,
\* a time budget or the default, a physical ID or none yet
\* a model without an ID may have no Name yet; a model with an ID carries the
\* Name the ID was generated with
Models ==
    { [ID |-> id, Name |-> n, ClusterID |-> loc = "cluster", KubeConfig |-> loc = "kubeconfig",
       VPCConfiguration |-> v, TimeOut |-> to] :
        id \in {<<>>, <<"cluster", "rel">>, <<"kubeconfig", "rel">>},
        n \in {<<>>, <<"rel">>}, loc \in {"cluster", "kubeconfig", "none"},
        v \in BOOLEAN, to \in {<<>>, <<ShortTimeOut>>} }
    \ { m \in [ID : {<<>>, <<"cluster", "rel">>, <<"kubeconfig", "rel">>},
                Name : {<<>>, <<"rel">>}, ClusterID : BOOLEAN, KubeConfig : BOOLEAN,
                VPCConfiguration : BOOLEAN, TimeOut : {<<>>, <<ShortTimeOut>>}] :
            \/ (~m.ClusterID /\ ~m.KubeConfig /\ (m.ID # <<>> \/ m.VPCConfiguration))
            \/ (m.ID # <<>> /\ m.Name = <<>>) }

InitCommon ==
    /\ op \in Ops
    /\ model \in Models
    \* a resource being created has no ID yet, and its release is given no name here
    /\ op = "Create" => (model.ID = <<>> /\ model.Name = <<>>)
    /\ op # "Create" => model.Name # <<>>    \* an existing resource has its release name
    \* the ID was generated from the locator the model has, unless an update (here:
    \* of a model without isolation config and time budget) changes the locator
    /\ (model.ID # <<>> /\ ~(op = "Update" /\ ~model.VPCConfiguration /\ model.TimeOut = <<>>))
            => model.ID = generateID(model).id
    /\ cluster \in IF model.ClusterID /\ ~model.VPCConfiguration
                  THEN {"public", "private", "noNat"} ELSE {"public"}
    /\ fn \in IF model.VPCConfiguration \/ cluster = "private" THEN LambdaStates ELSE {StateNotFound}
    /\ release \in IF op = "Create" THEN {ReleaseAbsent} ELSE {StatusDeployed, ReleaseAbsent}
    /\ StartTime = 0
    /\ LastKnownErrors = <<>>
    /\ now = 0
    /\ result = emptyEvent
    /\ rawErr = NoErr
    /\ inv = NoInv
    /\ installs = 0
    /\ seenRS = FALSE
    /\ dependents \in IF op = "Delete" /\ (model.VPCConfiguration \/ cluster = "private")
                     THEN 0..MaxDependents ELSE {0}
    /\ pin = NoCall
    /\ pout = NoCall
    /\ SideIdle

\* an operation begins without a resume token
Init == InitCommon /\ CallbackContext = <<>>

\* a handler can be handed any resume token
InitAny ==
    /\ InitCommon
    /\ CallbackContext \in {<<>>} \cup {<<[Stage |-> s, StartTime |-> 0,
                                            Name |-> StringValue(model.Name)]>> : s \in Stages}

Next == Create \/ Update \/ Delete \/ Read \/ Tick \/ EnvLambda \/ EnvRelease

Spec == Init /\ [][Next]_vars

SpecAny == InitAny /\ [][Next]_vars

(* ---------------- a delete run again after it completed ---------------- *)

\* the delete has completed, release and connector are gone, and the delete of
\* the same resource is started once more: no resume token, a new start time
Again ==
    /\ op = "Delete" /\ pin = NoCall
    /\ result.OperationStatus = Success
    /\ release = ReleaseAbsent /\ fn = StateNotFound
    /\ pin' = [kind |-> "again"]
    /\ CallbackContext' = <<>>
    /\ result' = emptyEvent
    /\ rawErr' = NoErr
    /\ inv' = NoInv
    /\ LastKnownErrors' = <<>>
    /\ now' = 0
    /\ UNCHANGED <<op, model, StartTime, cluster, fn, release, installs, seenRS, dependents,
                   pout, sideVars>>

InitAgain == Init /\ op = "Delete"

NextAgain == Delete \/ Tick \/ EnvLambda \/ EnvRelease \/ Again

SpecAgain == InitAgain /\ [][NextAgain]_vars

(* ---------------- an operation that is polled until it ends ---------------- *)

\* time passes between two polls, up to the end of the clock
Elapse ==
    /\ Live /\ inv.invoked
    /\ now < MaxNow
    /\ now' = Min(now + TickStep, MaxNow)
    /\ UNCHANGED <<op, model, CallbackContext, StartTime, LastKnownErrors, cluster, fn,
                   release, result, rawErr, inv, installs, seenRS, dependents, pin, pout, sideVars>>

\* the handler has returned o; of what the invocation did only the outcome is kept
Returned(o) ==
    /\ Len(o.x.lke) <= MaxDiag
    /\ result' = o.ev
    /\ rawErr' = o.rawErr
    /\ inv' = [NoInv EXCEPT !.invoked = TRUE]
    /\ model' = o.x.model
    /\ fn' = o.x.fn
    /\ release' = o.x.release
    /\ LastKnownErrors' = o.x.lke
    /\ StartTime' = o.x.start
    /\ CallbackContext' = IF o.ev.OperationStatus = InProgress
                          THEN <<[Stage |-> o.ev.Stage, StartTime |-> o.ev.StartTime,
                                  Name |-> o.ev.Name]>>
                          ELSE <<>>
    /\ UNCHANGED <<op, cluster, now, installs, seenRS, dependents, pin, pout, sideVars>>

\* mutant: the handler answers InProgress at the stage it was given, without the
\* step and without the look at the time budget
Handler_NoBudget(x, stage) ==
    {[ev |-> inProgressEvent(x.model, stage, x.start), rawErr |-> NoErr, x |-> x,
      next |-> stage, err |-> NoErr]}

\* the handler of the operation
Handler(x, stage) ==
    CASE op = "Create" -> CreateHandler(x, stage)
      [] op = "Update" -> UpdateHandler(x, stage)
      [] op = "Delete" -> DeleteHandler(x, stage)

\* the caller hands the token of the last outcome to the operation's handler
Poll ==
    /\ Live
    /\ LET stage == getStage(CallbackContext)
           start == getStartTime(CallbackContext, now)
       IN \E o \in Handler(Begin(start), stage) : Returned(o)

InitPolled == Init /\ op \in {"Create", "Update", "Delete"} /\ dependents = 0

NextPolled == Poll \/ Elapse \/ EnvLambda \/ EnvRelease

\* the caller keeps polling with the token it was given, and time passes
SpecPolled == InitPolled /\ [][NextPolled]_vars /\ WF_vars(Poll) /\ WF_vars(Elapse)

(* ---------------- the utility functions called on their own ---------------- *)

\* the texts tried as arguments: "a", and a text with a quote and a backslash
ArgTexts == {<<97>>, <<34, 92>>}

\* a *string argument: nil, "eks", or a text with a quote
ArgLocators == {<<>>, <<<<101, 107, 115>>>>, <<<<97, 34>>>>}

\* the id lists of a VPCConfiguration: the ids "1" and "2", in either order
ArgIdLists == {<<<<49>>>>, <<<<50>>>>, <<<<49>>, <<50>>>>, <<<<50>>, <<49>>>>}

generateIDArgs ==
    [kind : {"generateID"}, ClusterID : ArgLocators, KubeConfig : ArgLocators,
     name : ArgTexts \cup {<<>>}, region : ArgTexts \cup {<<>>}, namespace : ArgTexts \cup {<<>>}]

\* two requests with the same locators and each its own id lists
newLambdaResourceArgs ==
    [kind : {"newLambdaResource"}, ClusterID : ArgLocators, KubeConfig : ArgLocators,
     sgA : ArgIdLists, snA : ArgIdLists, sgB : ArgIdLists, snB : ArgIdLists]

GenerateID ==
    /\ pin.kind = "generateID" /\ pout.kind = "none"
    /\ LET g == generateIDText(pin, pin.name, pin.region, pin.namespace)
       IN pout' = [kind |-> "generated", id |-> g.id, err |-> g.err]
    /\ UNCHANGED <<op, model, CallbackContext, StartTime, LastKnownErrors, now, cluster, fn,
                   release, result, rawErr, inv, installs, seenRS, dependents, pin, sideVars>>

DecodeIDText ==
    /\ pout.kind = "generated" /\ pout.err = NoErr
    /\ LET d == decodeID(pout.id[1])
       IN pout' = [kind |-> "decoded", id |-> pout.id, val |-> d.val, err |-> d.err]
    /\ UNCHANGED <<op, model, CallbackContext, StartTime, LastKnownErrors, now, cluster, fn,
                   release, result, rawErr, inv, installs, seenRS, dependents, pin, sideVars>>

NewLambdaResource ==
    /\ pin.kind = "newLambdaResource" /\ pout.kind = "none"
    /\ pout' = [kind |-> "named",
                a |-> newLambdaResource(pin.ClusterID, pin.KubeConfig,
                          <<[SecurityGroupIds |-> pin.sgA, SubnetIds |-> pin.snA]>>),
                b |-> newLambdaResource(pin.ClusterID, pin.KubeConfig,
                          <<[SecurityGroupIds |-> pin.sgB, SubnetIds |-> pin.snB]>>)]
    /\ UNCHANGED <<op, model, CallbackContext, StartTime, LastKnownErrors, now, cluster, fn,
                   release, result, rawErr, inv, installs, seenRS, dependents, pin, sideVars>>

InitPure ==
    /\ op = "Read"
    /\ model = [ID |-> <<>>, Name |-> <<>>, ClusterID |-> FALSE, KubeConfig |-> FALSE,
                VPCConfiguration |-> FALSE, TimeOut |-> <<>>]
    /\ CallbackContext = <<>>
    /\ cluster = "public"
    /\ fn = StateNotFound
    /\ release = ReleaseAbsent
    /\ StartTime = 0
    /\ LastKnownErrors = <<>>
    /\ now = 0
    /\ result = emptyEvent
    /\ rawErr = NoErr
    /\ inv = NoInv
    /\ installs = 0
    /\ seenRS = FALSE
    /\ dependents = 0
    /\ pin \in generateIDArgs \cup newLambdaResourceArgs
    /\ pout = NoCall
    /\ SideIdle

NextPure == GenerateID \/ DecodeIDText \/ NewLambdaResource

SpecPure == InitPure /\ [][NextPure]_vars

(* ---------------- the readiness inspector called on its own ---------------- *)

\* the main program at rest
Idle ==
    /\ op = "Read"
    /\ model = [ID |-> <<>>, Name |-> <<>>, ClusterID |-> FALSE, KubeConfig |-> FALSE,
                VPCConfiguration |-> FALSE, TimeOut |-> <<>>]
    /\ CallbackContext = <<>>
    /\ cluster = "public"
    /\ fn = StateNotFound
    /\ release = ReleaseAbsent
    /\ StartTime = 0
    /\ LastKnownErrors = <<>>
    /\ now = 0
    /\ result = emptyEvent
    /\ rawErr = NoErr
    /\ inv = NoInv
    /\ installs = 0
    /\ seenRS = FALSE
    /\ dependents = 0

\* the documents tried: objects of every kind the inspector knows, pending and
\* not, an object of another kind, a document without content and a bad one
ArgDocs ==
    {Doc("Service", "LoadBalancer", 0, 0, 0, 0), Doc("Service", "LoadBalancer", 1, 0, 0, 0),
     Doc("Service", "ClusterIP", 0, 0, 0, 0),
     Doc("Deployment", "", 0, 1, 2, 0), Doc("Deployment", "", 0, 2, 2, 0),
     Doc("StatefulSet", "", 0, 0, 1, 0), Doc("StatefulSet", "", 0, 1, 1, 0),
     Doc("DaemonSet", "", 0, 0, 0, 1), Doc("DaemonSet", "", 0, 0, 0, 0),
     Doc("Ingress", "", 0, 0, 0, 0), Doc("Ingress", "", 1, 0, 0, 0),
     Doc("ConfigMap", "", 0, 0, 0, 0), BlankDoc, BadDoc}

ArgManifests == UNION { [1..n -> ArgDocs] : n \in 0..MaxDocs }

checkPendingArgs == [kind : {"CheckPendingResources"}, manifest : ArgManifests]

CheckPending ==
    /\ pin.kind = "CheckPendingResources" /\ pout.kind = "none"
    /\ \E r \in CheckPendingManifest(pin.manifest) :
            pout' = [kind |-> "checked", pending |-> r.pending, err |-> r.err]
    /\ UNCHANGED <<op, model, CallbackContext, StartTime, LastKnownErrors, now, cluster, fn,
                   release, result, rawErr, inv, installs, seenRS, dependents, pin, sideVars>>

\* the names of namespaces
ArgNamespaces == {"default", "apps"}

createNamespaceArgs == [kind : {"createNamespace"}, namespace : ArgNamespaces]

\* createNamespace can be called over and over
CreateNamespace ==
    /\ pin.kind = "createNamespace"
    /\ \E r \in createNamespace(namespaces, pin.namespace) :
            /\ pout' = [kind |-> "created", err |-> r.err, answer |-> r.answer,
                        existed |-> pin.namespace \in namespaces]
            /\ namespaces' = r.existing
    /\ UNCHANGED <<op, model, CallbackContext, StartTime, LastKnownErrors, now, cluster, fn,
                   release, result, rawErr, inv, installs, seenRS, dependents, pin, repoVars>>

uninstallArgs == [kind : {"HelmUninstall"}, name : {"rel"}]

\* HelmUninstall can be called over and over; before and after are what the
\* release was and is
Uninstall ==
    /\ pin.kind = "HelmUninstall"
    /\ \E r \in HelmUninstall(Begin(StartTime)) :
            /\ pout' = [kind |-> "uninstalled", err |-> r.err, before |-> release,
                        after |-> r.x.release, notFound |-> r.x.notFound]
            /\ release' = r.x.release
    /\ UNCHANGED <<op, model, CallbackContext, StartTime, LastKnownErrors, now, cluster, fn,
                   result, rawErr, inv, installs, seenRS, dependents, pin, sideVars>>

\* a release that is gone is installed again
Reinstall ==
    /\ pin.kind = "HelmUninstall" /\ release = ReleaseAbsent
    /\ release' = StatusDeployed
    /\ UNCHANGED <<op, model, CallbackContext, StartTime, LastKnownErrors, now, cluster, fn,
                   result, rawErr, inv, installs, seenRS, dependents, pin, pout, sideVars>>

InitKube ==
    /\ Idle
    /\ pin \in checkPendingArgs \cup createNamespaceArgs \cup uninstallArgs
    /\ pout = NoCall
    /\ namespaces \in IF pin.kind = "createNamespace" THEN SUBSET ArgNamespaces ELSE {{}}
    /\ repoFile = <<>> /\ lockHolder = 0 /\ indexes = [e \in Entries |-> 0]
    /\ proc = [p \in Procs |-> IdleProc]

NextKube == CheckPending \/ CreateNamespace \/ Uninstall \/ Reinstall

SpecKube == InitKube /\ [][NextKube]_vars

(* ---------------- helm.go: addHelmRepoUpdate, overlapping ---------------- *)

AddRepoError == Err("Adding helm repository")

\* mutant: the refresh does not wait for its tasks
joinReady_NoWait(tasks) == TRUE

\* wg.Wait(): every task has called wg.Done()
joinReady(tasks) == \A e \in DOMAIN tasks : tasks[e] # "running"

\* re.DownloadIndexFile() in the task of repository e, run by execution p
refreshTask(ix, e, p) ==
    {[st |-> "ok", ix |-> [ix EXCEPT ![e] = p]], [st |-> "failed", ix |-> ix]}

\* the statement execution p stands at is left for the statement pc
Goto(p, pc) == proc' = [proc EXCEPT ![p].pc = pc]

\* execution p returns err; the deferred Unlock runs if it was registered
ReturnRepo(p, err) ==
    /\ proc' = [proc EXCEPT ![p].pc = "done", ![p].ret = <<err>>, ![p].locked = FALSE]
    /\ lockHolder' = IF proc[p].locked THEN 0 ELSE lockHolder

RepoFrame == UNCHANGED <<op, model, CallbackContext, StartTime, LastKnownErrors, now, cluster, fn,
                         release, result, rawErr, inv, installs, seenRS, dependents, pin, pout,
                         namespaces>>

\* addHelmRepoUpdate(name, url, settings) is called (again)
StartRepo(p) ==
    /\ proc[p].pc \in {"idle", "done"}
    /\ \E e \in Entries : proc' = [proc EXCEPT ![p] = [IdleProc EXCEPT !.pc = "remove", !.name = e]]
    /\ UNCHANGED <<repoFile, lockHolder, indexes>> /\ RepoFrame

\* os.Remove(file)
RemoveFile(p) ==
    /\ proc[p].pc = "remove"
    /\ repoFile' = <<>>
    /\ Goto(p, "mkdir")
    /\ UNCHANGED <<lockHolder, indexes>> /\ RepoFrame

\* os.MkdirAll
MkdirAll(p) ==
    /\ proc[p].pc = "mkdir"
    /\ \/ Goto(p, "lock") /\ UNCHANGED lockHolder
       \/ ReturnRepo(p, AddRepoError)
    /\ UNCHANGED <<repoFile, indexes>> /\ RepoFrame

\* fileLock.TryLockContext: the lock is taken when free; while another execution
\* holds it the attempt is repeated, until the 30 seconds are over
TryLock(p) ==
    /\ proc[p].pc = "lock"
    /\ IF lockHolder = 0
       THEN lockHolder' = p /\ proc' = [proc EXCEPT ![p].pc = "read", ![p].locked = TRUE]
       ELSE ReturnRepo(p, AddRepoError)
    /\ UNCHANGED <<repoFile, indexes>> /\ RepoFrame

\* ioutil.ReadFile and yaml.Unmarshal: a file that is not there gives an empty repo.File
ReadFile(p) ==
    /\ proc[p].pc = "read"
    /\ \/ proc' = [proc EXCEPT ![p].pc = "download",
                                ![p].f = IF repoFile = <<>> THEN {} ELSE repoFile[1]]
          /\ UNCHANGED lockHolder
       \/ ReturnRepo(p, AddRepoError)
    /\ UNCHANGED <<repoFile, indexes>> /\ RepoFrame

\* repo.NewChartRepository and r.DownloadIndexFile for the new entry
DownloadIndex(p) ==
    /\ proc[p].pc = "download"
    /\ \/ Goto(p, "write") /\ UNCHANGED lockHolder
             /\ indexes' = [indexes EXCEPT ![proc[p].name] = p]
       \/ ReturnRepo(p, AddRepoError) /\ UNCHANGED indexes
    /\ UNCHANGED repoFile /\ RepoFrame

\* f.Update(&c) and f.WriteFile(file, 0644)
WriteFile(p) ==
    /\ proc[p].pc = "write"
    /\ \/ /\ proc' = [proc EXCEPT ![p].pc = "spawn", ![p].f = proc[p].f \cup {proc[p].name}]
          /\ repoFile' = <<proc[p].f \cup {proc[p].name}>>
          /\ UNCHANGED lockHolder
       \/ ReturnRepo(p, AddRepoError) /\ UNCHANGED repoFile
    /\ UNCHANGED indexes /\ RepoFrame

\* for _, re := range repos { wg.Add(1); go func(re) {...}(re) }
Spawn(p) ==
    /\ proc[p].pc = "spawn"
    /\ proc' = [proc EXCEPT ![p].pc = "wait", ![p].tasks = [e \in proc[p].f |-> "running"]]
    /\ UNCHANGED <<repoFile, lockHolder, indexes>> /\ RepoFrame

\* the goroutine of repository e: its download fails (logged) or not (logged), wg.Done()
Task(p) ==
    /\ proc[p].pc = "wait"
    /\ \E e \in DOMAIN proc[p].tasks :
          /\ proc[p].tasks[e] = "running"
          /\ \E r \in refreshTask(indexes, e, p) :
                /\ proc' = [proc EXCEPT ![p].tasks[e] = r.st]
                /\ indexes' = r.ix
    /\ UNCHANGED <<repoFile, lockHolder>> /\ RepoFrame

\* wg.Wait() returns; return nil
WaitGroupWait(p) ==
    /\ proc[p].pc = "wait"
    /\ joinReady(proc[p].tasks)
    /\ ReturnRepo(p, NoErr)
    /\ UNCHANGED <<repoFile, indexes>> /\ RepoFrame

InitRepo ==
    /\ Idle
    /\ pin = NoCall /\ pout = NoCall
    /\ SideIdle

NextRepo ==
    \E p \in Procs :
        \/ StartRepo(p) \/ RemoveFile(p) \/ MkdirAll(p) \/ TryLock(p) \/ ReadFile(p)
        \/ DownloadIndex(p) \/ WriteFile(p) \/ Spawn(p) \/ Task(p) \/ WaitGroupWait(p)

SpecRepo == InitRepo /\ [][NextRepo]_vars

(* ---------------- checkTimeOut called on its own ---------------- *)

\* the TimeOut values tried (minutes); <<>> is nil
ArgTimeOuts == {<<>>, <<0>>, <<1>>, <<2>>, <<defaultTimeOut>>, <<90>>}

\* the elapsed times tried (milliseconds): around each budget, 10 minutes, 10 hours
ArgElapsed ==
    { e \in { budgetSeconds(b) * 1000 + d : b \in ArgTimeOuts, d \in {-1000, -1, 0, 1, 999, 1000} }
        : e >= 0 }
    \cup {10 * 60 * 1000, 10 * 60 * 60 * 1000}

checkTimeOutArgs ==
    [kind : {"checkTimeOut"}, startTime : {0, 7}, timeOut : ArgTimeOuts, elapsed : ArgElapsed]

CheckTimeOut ==
    /\ pin.kind = "checkTimeOut" /\ pout.kind = "none"
    /\ pout' = [kind |-> "checked",
                val |-> checkTimeOutAt(pin.startTime, pin.timeOut,
                                       pin.startTime * 1000 + pin.elapsed)]
    /\ UNCHANGED <<op, model, CallbackContext, StartTime, LastKnownErrors, now, cluster, fn,
                   release, result, rawErr, inv, installs, seenRS, dependents, pin, sideVars>>

InitTime ==
    /\ Idle
    /\ pin \in checkTimeOutArgs
    /\ pout = NoCall
    /\ SideIdle

NextTime == CheckTimeOut

SpecTime == InitTime /\ [][NextTime]_vars

(* ---------------- the List handler ---------------- *)

List ==
    /\ op = "List" /\ ~inv.invoked
    /\ \E o \in ListHandler(Begin(StartTime)) : Return(o, "")

\* List can be handed any model, any resume token, and finds the connector and
\* the release in any state
InitList ==
    /\ op = "List"
    /\ model \in Models
    /\ model.ID # <<>> => model.ID = generateID(model).id
    /\ cluster \in IF model.ClusterID /\ ~model.VPCConfiguration
                  THEN {"public", "private", "noNat"} ELSE {"public"}
    /\ fn \in IF model.VPCConfiguration \/ cluster = "private" THEN LambdaStates ELSE {StateNotFound}
    /\ release \in {StatusDeployed, ReleaseAbsent}
    /\ CallbackContext \in {<<>>} \cup {<<[Stage |-> s, StartTime |-> 0,
                                            Name |-> StringValue(model.Name)]>> : s \in Stages}
    /\ StartTime = 0
    /\ LastKnownErrors = <<>>
    /\ now = 0
    /\ result = emptyEvent
    /\ rawErr = NoErr
    /\ inv = NoInv
    /\ installs = 0
    /\ seenRS = FALSE
    /\ dependents = 0
    /\ pin = NoCall
    /\ pout = NoCall
    /\ SideIdle

NextList == List

SpecList == InitList /\ [][NextList]_vars

(* ---------------- the isolation detection called on its own ---------------- *)

\* the lists of public access CIDRs tried (EKS gives at least one)
ArgCidrs == {<<AnyCidr>>, <<"10.0.0.0/8">>, <<"10.0.0.0/8", AnyCidr>>, <<AnyCidr, "10.0.0.0/8">>}

\* route tables: to an internet gateway, to a NAT gateway, to two NAT gateways
ArgTables == {<<"igw">>, <<"nat">>, <<"igw", "nat">>, <<"nat", "nat">>}

\* the i-th subnet of the cluster, with its own route table or none
ArgSubnet(i) == {[id |-> i, table |-> t] : t \in {<<>>} \cup {<<r>> : r \in ArgTables}}

ArgSubnetLists ==
    UNION { { l \in [1..n -> UNION {ArgSubnet(i) : i \in 1..n}] : \A i \in 1..n : l[i].id = i }
            : n \in 1..MaxSubnets }

getVpcConfigArgs ==
    [kind : {"getVpcConfig"}, ClusterID : BOOLEAN, VPCConfiguration : BOOLEAN,
     EndpointPublicAccess : BOOLEAN, PublicAccessCidrs : ArgCidrs,
     SubnetIds : ArgSubnetLists, main : {<<"igw">>, <<"nat">>}]

\* the call in initialize: an error ends the step with makeEvent(NoStage, err)
GetVpcConfig ==
    /\ pin.kind = "getVpcConfig" /\ pout.kind = "none"
    /\ \E r \in getVpcConfigOf(pin, pin) :
            pout' = [kind |-> "derived", vpc |-> r.vpc, err |-> r.err,
                     status |-> IF r.err # NoErr
                                THEN makeEvent(Begin(StartTime), NoStage, r.err).OperationStatus
                                ELSE ""]
    /\ UNCHANGED <<op, model, CallbackContext, StartTime, LastKnownErrors, now, cluster, fn,
                   release, result, rawErr, inv, installs, seenRS, dependents, pin, sideVars>>

InitVpc ==
    /\ Idle
    /\ pin \in getVpcConfigArgs
    /\ pout = NoCall
    /\ SideIdle

NextVpc == GetVpcConfig

SpecVpc == InitVpc /\ [][NextVpc]_vars

(* ---------------- the connector's handler next to the driver's own call ---------------- *)

Actions ==
    {InstallReleaseAction, UpdateReleaseAction, CheckReleaseAction, GetPendingAction,
     GetResourcesAction, UninstallReleaseAction, ListReleaseAction}

\* the events tried: every action and two the handler does not know, a release
\* in any state, a model with any ID and any name
relayArgs ==
    [kind : {"relay"}, action : Actions \cup {InitStage, "Bogus"},
     release : ReleaseStatuses \cup {ReleaseAbsent},
     id : {<<>>, <<"cluster", "rel">>, <<"cluster", "other">>},
     name : {<<>>, <<"rel">>, <<"other">>}]

\* the invocation the event is handled in
relayContext(a) ==
    [Begin(0) EXCEPT !.model.ID = a.id, !.model.Name = a.name, !.release = a.release]

\* the vpc == false branch of the wrapper of the action
direct(x, action) ==
    CASE action = InstallReleaseAction -> helmInstallWrapper(x, FALSE)
      [] action = CheckReleaseAction -> helmStatusWrapper(x, FALSE)
      [] action = GetPendingAction -> kubePendingWrapper(x, FALSE)
      [] action = GetResourcesAction -> kubeResourcesWrapper(x, FALSE)
      [] action = UpdateReleaseAction -> helmUpgradeWrapper(x, FALSE)
      [] action = UninstallReleaseAction -> helmDeleteWrapper(x, FALSE)
      [] action = ListReleaseAction -> helmListWrapper(x, FALSE)
      [] OTHER -> {}

\* what is seen of one run of an operation: its error, its result, the calls
\* made, the release it leaves and the release name it was given
Seen(r, name) ==
    [err |-> r.err, val |-> r.val, calls |-> r.x.calls, release |-> r.x.release,
     name |-> name]

Relay ==
    /\ pin.kind = "relay" /\ pout.kind = "none"
    /\ LET x == relayContext(pin)
       IN pout' = [kind |-> "relayed",
                   bridged |-> {Seen(r, HandleRequestName(x.model, pin.action))
                                   : r \in HandleRequest(x, pin.action)},
                   direct |-> {Seen(r, wrapperName(x.model, pin.action))
                                   : r \in direct(x, pin.action)}]
    /\ UNCHANGED <<op, model, CallbackContext, StartTime, LastKnownErrors, now, cluster, fn,
                   release, result, rawErr, inv, installs, seenRS, dependents, pin, sideVars>>

InitRelay ==
    /\ Idle
    /\ pin \in relayArgs
    /\ pout = NoCall
    /\ SideIdle

NextRelay == Relay

SpecRelay == InitRelay /\ [][NextRelay]_vars

TypeOK ==
    /\ op \in Ops
    /\ now \in 0..MaxNow
    /\ fn \in LambdaStates
    /\ release \in ReleaseStatuses \cup {ReleaseAbsent}
    /\ result.OperationStatus \in {"", Failed, Success, InProgress}
    /\ installs \in 0..MaxInstalls
    /\ Len(LastKnownErrors) <= MaxDiag

(* ---------------- vocabulary of the properties ---------------- *)

CUD == {"Create", "Update", "Delete"}

Has(cs, name) == \E i \in DOMAIN cs : cs[i] = name

Count(cs, name) == Cardinality({i \in DOMAIN cs : cs[i] = name})

\* install, upgrade, uninstall, through the connector or not, and the calls that
\* create, update or tear down the connector
SideEffectCalls ==
    {"HelmInstall", "HelmUpgrade", "HelmUninstall", "Invoke",
     "CreateFunction", "UpdateFunctionCode", "UpdateFunctionConfiguration", "DeleteFunction"}

\* the cluster/package operation of a step, and the teardown that follows an uninstall
StepCalls ==
    {"HelmInstall", "HelmUpgrade", "HelmUninstall", "HelmStatus", "CheckPendingResources",
     "Invoke", "DeleteFunction"}

\* the budget was used up when the last invocation packaged its outcome
Over == inv.elapsed * 60 >= budgetSeconds(model.TimeOut)

Exceeded == inv.elapsed * 60 > budgetSeconds(model.TimeOut)

TimeoutMessage == <<TimedOutText>> \o Join(LastKnownErrors, "\n ")

(* ---------------- C1 ---------------- *)

C2_StagesOnlyForward ==
    [][ (op \in {"Create", "Update"} /\ seenRS) =>
            /\ ~(result'.OperationStatus = InProgress /\ result'.Stage \in {InitStage, LambdaStabilize})
            /\ installs' <= 1 ]_vars

(* ---------------- C3 ---------------- *)

\* C3: when the elapsed time exceeds the budget and the stage the step returns is
\* not Complete, the outcome is Failed with the timeout text followed by the
\* joined diagnostics, whether the step raised an error or not; a step that
\* returns Complete is reported Complete even over budget.
C3_TimeoutOutcome ==
    (inv.invoked /\ rawErr = NoErr /\ Exceeded) =>
        IF inv.next # CompleteStage
        THEN /\ result.OperationStatus = Failed
             /\ result.Message # <<>>
             /\ result.Message = TimeoutMessage
        ELSE result.OperationStatus = Success

C3_Witness ==
    /\ inv.invoked /\ Exceeded
    /\ inv.err # NoErr
    /\ Len(LastKnownErrors) = 2
    /\ result.OperationStatus = Failed
    /\ result.Message = TimeoutMessage

(* ---------------- C4 ---------------- *)

Handled(o, stage) ==
    CASE o \in {"Create", "Update"} -> stage \in {InitStage, LambdaStabilize, ReleaseStabilize}
      [] o = "Delete" -> stage \in {InitStage, LambdaStabilize, UninstallRelease, ReleaseStabilize}
      [] OTHER -> FALSE

ExpectedStep(o, stage) ==
    CASE o = "Create" /\ stage \in {InitStage, LambdaStabilize} -> <<"initialize", InstallReleaseAction>>
      [] o = "Update" /\ stage \in {InitStage, LambdaStabilize} -> <<"initialize", UpdateReleaseAction>>
      [] o \in {"Create", "Update"} /\ stage = ReleaseStabilize -> <<"checkReleaseStatus">>
      [] o = "Delete" /\ Handled(o, stage) -> <<"initialize", UninstallReleaseAction>>
      [] OTHER -> <<>>

\* C5: the (action, stage) dispatch is total.  Create/update run the action step
\* at Init and LambdaStabilize and the status step at ReleaseStabilize; delete
\* runs the uninstall step at Init, LambdaStabilize, UninstallRelease and
\* ReleaseStabilize; every other pair performs no operation and is Failed, the
\* step's error being 'unhandled stage' (which is the message unless the budget
\* is used up).  Every pair yields one of InProgress(next stage), Complete, Failed.
C5_DispatchTotal ==
    (inv.invoked /\ op \in CUD) =>
        /\ inv.step = ExpectedStep(op, inv.stage)
        /\ result.OperationStatus \in {InProgress, Success, Failed}
        /\ result.OperationStatus = InProgress => result.Stage \in Stages
        /\ ~Handled(op, inv.stage) =>
              /\ inv.calls = <<>>
              /\ result.OperationStatus = Failed
              /\ inv.err = <<UnhandledStageText, inv.stage>>
              /\ ~Over => result.Message = <<UnhandledStageText, inv.stage>>

C5_Witness ==
    /\ inv.invoked /\ op = "Create" /\ inv.stage = CompleteStage
    /\ result.OperationStatus = Failed
    /\ result.Message = <<UnhandledStageText, CompleteStage>>

(* ---------------- C6 ---------------- *)

\* C6: the status step maps the status it has just queried: deployed with
\* readiness pending -> ReleaseStabilize; deployed with readiness not pending ->
\* the success stage (Complete); pending-install/pending-upgrade ->
\* ReleaseStabilize with one diagnostic entry pushed; any other status ->
\* Failed('release failed').  Create/update report Complete only if, in that
\* invocation, the status was deployed and readiness was not pending.
C6_StatusStep ==
    /\ (inv.invoked /\ inv.step = <<"checkReleaseStatus">> /\ inv.status # "") =>
          /\ (inv.status = StatusDeployed /\ inv.pending = "true") =>
                (inv.next = ReleaseStabilize /\ inv.err = NoErr)
          /\ (inv.status = StatusDeployed /\ inv.pending = "false") =>
                (inv.next = CompleteStage /\ inv.err = NoErr /\ result.OperationStatus = Success)
          /\ inv.status \in {StatusPendingInstall, StatusPendingUpgrade} =>
                /\ inv.next = ReleaseStabilize /\ inv.err = NoErr
                /\ Len(LastKnownErrors) = Len(inv.lkeIn) + 1
                /\ SubSeq(LastKnownErrors, 1, Len(inv.lkeIn)) = inv.lkeIn
          /\ inv.status \notin {StatusDeployed, StatusPendingInstall, StatusPendingUpgrade} =>
                (inv.err = Err(ReleaseFailedText) /\ result.OperationStatus = Failed)
          /\ (inv.next = ReleaseStabilize /\ inv.err = NoErr /\ ~Over) =>
                (result.OperationStatus = InProgress /\ result.Stage = ReleaseStabilize)
    /\ (inv.invoked /\ op \in {"Create", "Update"} /\ result.OperationStatus = Success) =>
          (inv.status = StatusDeployed /\ inv.pending = "false")

C6_Witness ==
    /\ inv.invoked /\ inv.step = <<"checkReleaseStatus">>
    /\ inv.status = StatusPendingUpgrade
    /\ LastKnownErrors = Append(inv.lkeIn, StatusPendingUpgrade)
    /\ result.OperationStatus = InProgress /\ result.Stage = ReleaseStabilize

(* ---------------- C7 ---------------- *)

\* C7: on the delete path an uninstall that finds the release absent does not fail:
\* the step goes on to the connector teardown (when there is a connector) and the
\* delete reports Complete, directly or through the connector; only the teardown
\* itself can still fail the step.
C7_NotFoundOnDelete ==
    (inv.invoked /\ op = "Delete" /\ inv.notFound) =>
        /\ model.VPCConfiguration => inv.calls[Len(inv.calls)] = "DeleteFunction"
        /\ ~model.VPCConfiguration => inv.err = NoErr
        /\ inv.err # NoErr => inv.err = Err("AWSError")
        /\ inv.err = NoErr => (inv.next = CompleteStage /\ result.OperationStatus = Success)

C7_Witness ==
    /\ inv.invoked /\ op = "Delete" /\ inv.notFound
    /\ inv.calls = <<"GetFunction", "GetFunction", "UpdateFunctionConfiguration", "Invoke",
                     "HelmUninstall", "DeleteFunction">>
    /\ result.OperationStatus = Success

(* ---------------- C8 ---------------- *)

\* C8 (as claimed): a connector not Active within the retries of an invocation
\* gives, for create, update, delete and read alike, the outcome InProgress, and
\* the cluster/package operation of the step is not executed.
C8_NotReadyIsInProgress ==
    (inv.invoked /\ inv.lam = "notready") =>
        /\ result.OperationStatus = InProgress
        /\ \A i \in DOMAIN inv.calls : inv.calls[i] \notin StepCalls

\* C8 (amended): a connector not Active within the retries is never treated as
\* success and the cluster/package operation of the step is not executed.  For
\* create, update and delete the step returns stage LambdaStabilize without an
\* error, so the outcome is InProgress(LambdaStabilize) unless the budget is used
\* up (then the timeout failure); for read the outcome is Failed, the step's error
\* being "vpc connector didn't stabilize in time".
C8_NotReadyRunsNothing ==
    (inv.invoked /\ inv.lam = "notready") =>
        /\ \A i \in DOMAIN inv.calls : inv.calls[i] \notin StepCalls
        /\ result.OperationStatus # Success
        /\ op \in CUD =>
              /\ inv.next = LambdaStabilize /\ inv.err = NoErr
              /\ ~Over => (result.OperationStatus = InProgress /\ result.Stage = LambdaStabilize)
        /\ op = "Read" =>
              /\ inv.err = Err(NotStabilizedText)
              /\ result.OperationStatus = Failed

C8_Witness ==
    /\ inv.invoked /\ inv.lam = "notready" /\ op = "Read"
    /\ result.OperationStatus = Failed
    /\ result.Message = Err(NotStabilizedText)

(* ---------------- C9 ---------------- *)

\* C9: connector stabilization within one invocation terminates within the bound.
\* From NotFound the function is created once and then queried at most
\* retryCount times, from Pending it is queried at most retryCount times; the
\* loop returns 'ready' exactly at the first query that reports Active and 'not
\* ready', without error, exactly when retryCount queries have reported
\* something else.
C9_BoundedStabilization ==
    (inv.invoked /\ inv.first \in {StateNotFound, StatePending}) =>
        LET n == Len(inv.seen)
        IN /\ n - 1 <= retryCount
           /\ Count(inv.calls, "CreateFunction") <= 1
           /\ inv.first = StatePending => ~Has(inv.calls, "CreateFunction")
           /\ (inv.first = StateNotFound /\ n > 1) =>
                 (inv.calls[2] = "CreateFunction" /\ Count(inv.calls, "CreateFunction") = 1)
           /\ \A i \in 2..(n - 1) : inv.seen[i] = "other"
           /\ inv.lam = "ready" <=> (n > 1 /\ inv.seen[n] = "Active")
           /\ inv.lam = "notready" <=> (n - 1 = retryCount /\ inv.seen[n] = "other")
           /\ inv.lam \in {"ready", "notready", "error"}

C9_Witness ==
    /\ inv.invoked /\ inv.first = StateNotFound
    /\ inv.lam = "notready"
    /\ inv.seen = <<"other", "other", "other", "other">>
    /\ Has(inv.calls, "CreateFunction")

(* ---------------- C10 ---------------- *)

\* C10: when the first state observed by the connector initialization is Inactive
\* or Failed, the initialization returns an error, the outcome is Failed, and
\* neither a connector create/update nor the step's cluster/package operation runs.
C10_FatalBridgeState ==
    (inv.invoked /\ inv.first \in {StateInactive, StateFailed}) =>
        /\ inv.lam = "error"
        /\ inv.err = <<NotDesiredStateText, inv.first>>
        /\ result.OperationStatus = Failed
        /\ inv.calls = <<"GetFunction">>

C10_Witness ==
    /\ inv.invoked /\ inv.first = StateInactive
    /\ inv.lam = "error"
    /\ result.OperationStatus = Failed
    /\ result.Message = <<NotDesiredStateText, StateInactive>>

(* ---------------- C11 ---------------- *)

\* C11: when the connector is found Active and its deployed fingerprint is read,
\* the code is updated exactly when the fingerprint differs from that of the local
\* package (unless the package cannot be read), the configuration is refreshed
\* once whenever the reconciliation succeeds, changed code or not, and a failed
\* code update is returned as the error without a configuration refresh.
C11_ActiveReconciliation ==
    (inv.invoked /\ inv.sha # "none") =>
        /\ inv.first = StateActive
        /\ Has(inv.calls, "UpdateFunctionCode") => inv.sha = "stale"
        /\ inv.sha = "stale" => (Has(inv.calls, "UpdateFunctionCode") \/ inv.err = Err("getZip"))
        /\ inv.lam = "ready" =>
              /\ Count(inv.calls, "UpdateFunctionConfiguration") = 1
              /\ Count(inv.calls, "UpdateFunctionCode") = (IF inv.sha = "stale" THEN 1 ELSE 0)
        /\ inv.codeFailed =>
              /\ ~Has(inv.calls, "UpdateFunctionConfiguration")
              /\ inv.lam = "error" /\ inv.err = Err("AWSError")
              /\ result.OperationStatus = Failed

C11_Witness ==
    /\ inv.invoked /\ inv.first = StateActive /\ inv.sha = "local" /\ inv.lam = "ready"
    /\ Count(inv.calls, "UpdateFunctionConfiguration") = 1
    /\ ~Has(inv.calls, "UpdateFunctionCode")

(* ---------------- C12 ---------------- *)

\* C12: the name of a connector is free or taken for all releases with the same
\* target alike, so one invocation makes at most one function, and only when it
\* found none; a connector found Active or Pending is reused without a create
\* call; and a create call that finds the name taken meanwhile makes no function
\* and is no error: the invocation goes on to wait for the connector.
C12_SharedBridge ==
    inv.invoked =>
        /\ inv.created <= 1
        /\ inv.created = 1 => (inv.first = StateNotFound /\ ~inv.conflict)
        /\ inv.first \in {StateActive, StatePending} => ~Has(inv.calls, "CreateFunction")
        /\ inv.conflict =>
              /\ inv.created = 0
              /\ Count(inv.calls, "CreateFunction") = 1
              /\ Len(inv.seen) >= 2

C12_Witness ==
    /\ inv.invoked /\ inv.conflict /\ inv.created = 0 /\ inv.lam = "ready"
    /\ result.OperationStatus \in {InProgress, Success}

(* ---------------- C14 ---------------- *)

\* C14: a teardown that finds no connector is a success (the delete step is
\* Complete), also right after a teardown that removed it; a teardown refused
\* for any other reason is returned as an error and the delete step is Failed.
C14_IdempotentTeardown ==
    inv.invoked =>
        /\ inv.del = "notfound" =>
              (inv.err = NoErr /\ inv.next = CompleteStage /\ result.OperationStatus = Success)
        /\ inv.del = "error" =>
              (inv.err # NoErr /\ inv.next = NoStage /\ result.OperationStatus = Failed)

C14_Witness ==
    /\ inv.invoked /\ op = "Delete" /\ inv.del = "notfound"
    /\ inv.calls[Len(inv.calls)] = "DeleteFunction"
    /\ result.OperationStatus = Success

(* ---------------- C15 ---------------- *)

\* the uninstall of the delete path went through (the release is gone)
Uninstalled ==
    inv.invoked /\ op = "Delete" /\ Has(inv.calls, "HelmUninstall") /\ release = ReleaseAbsent

\* C15: when the uninstall of a release with an isolation config went through,
\* the connector's deletion is requested, once and as the last call, however
\* many other releases depend on the connector; without isolation config the
\* delete path completes with no deletion call.
C15_NoReferenceCount ==
    Uninstalled =>
        /\ model.VPCConfiguration =>
              /\ Count(inv.calls, "DeleteFunction") = 1
              /\ inv.calls[Len(inv.calls)] = "DeleteFunction"
              /\ inv.del # "none"
        /\ ~model.VPCConfiguration =>
              /\ ~Has(inv.calls, "DeleteFunction")
              /\ inv.next = CompleteStage /\ result.OperationStatus = Success

C15_Witness ==
    /\ Uninstalled /\ model.VPCConfiguration /\ dependents > 0
    /\ inv.del = "deleted" /\ fn = StateNotFound
    /\ result.OperationStatus = Success

(* ---------------- C16 ---------------- *)

\* the last relayed call of the invocation ended in an error of the connector
RemoteFailed == inv.invoked /\ inv.relay.kind \in {"remote", "payload"}

TransportFailed == inv.invoked /\ inv.relay.kind = "transport"

\* what the relay makes of a remote execution error
RemoteUnwrapped ==
    /\ inv.relay.kind = "remote" => inv.err = <<"[errorType] ">> \o inv.relay.raw
    /\ inv.relay.kind = "payload" => inv.err = <<"[Unhandled] ">> \o inv.relay.raw
    /\ ~inv.relay.resp

\* C16 (as claimed): a remote execution error becomes a local error made of the
\* error type and message, or of the raw payload, with no response; a transport
\* error is surfaced unchanged; neither is a success.
C16_TransportUnchanged ==
    /\ RemoteFailed => (RemoteUnwrapped /\ result.OperationStatus = Failed)
    /\ TransportFailed =>
          (inv.err = inv.relay.raw /\ ~inv.relay.resp /\ result.OperationStatus = Failed)

\* C16 (amended): a transport error is surfaced through AWSError, which writes an
\* error of the SDK anew as "AWS Error: <code> - <message> <cause>" and keeps the
\* text of any other error.
C16_TransportThroughAWSError ==
    /\ RemoteFailed => (RemoteUnwrapped /\ result.OperationStatus = Failed)
    /\ TransportFailed =>
          /\ inv.err = AWSError(inv.relay.raw)
          /\ IsAwsErr(inv.relay.raw) =>
                inv.err = <<"AWS Error: ", inv.relay.raw[2], " - ", inv.relay.raw[3], " ", "<nil>">>
          /\ ~IsAwsErr(inv.relay.raw) => inv.err = ErrorText(inv.relay.raw)
          /\ ~inv.relay.resp /\ result.OperationStatus = Failed

C16_Witness ==
    /\ TransportFailed /\ IsAwsErr(inv.relay.raw)
    /\ inv.err # inv.relay.raw /\ inv.err # ErrorText(inv.relay.raw)
    /\ result.OperationStatus = Failed

(* ---------------- C13 ---------------- *)

\* the ids of a list, as a set
IdSet(l) == {l[k] : k \in DOMAIN l}

\* C13: two requests with the same locator and the same sets of security-group
\* ids and subnet ids get the same connector name, in whatever order the ids
\* are listed.
C13_NameIgnoresOrder ==
    (pout.kind = "named" /\ ~pout.a.panic /\ ~pout.b.panic
        /\ IdSet(pin.sgA) = IdSet(pin.sgB) /\ IdSet(pin.snA) = IdSet(pin.snB)) =>
        pout.a.functionName = pout.b.functionName

(* ---------------- C17 ---------------- *)

\* the ID fields generateID is asked to encode
EncodedFields ==
    [ClusterID |-> IF pin.ClusterID # <<>> THEN pin.ClusterID[1] ELSE <<>>,
     KubeConfig |-> IF pin.KubeConfig # <<>> THEN pin.KubeConfig[1] ELSE <<>>,
     Region |-> pin.region, Name |-> pin.name, Namespace |-> pin.namespace]

ExactlyOneLocator == (pin.ClusterID = <<>>) # (pin.KubeConfig = <<>>)

\* C17: for every (locator kind, locator value, region, release name,
\* namespace) with exactly one locator, decoding the generated ID succeeds and
\* yields the same five fields, and the ID is made of characters of the URL
\* alphabet only: it contains no padding character '='.
C17_CodecRoundTrip ==
    (pout.kind = "decoded" /\ ExactlyOneLocator) =>
        /\ pout.err = NoErr
        /\ pout.val = EncodedFields
        /\ \A k \in DOMAIN pout.id[1] : pout.id[1][k] # 61 /\ base64Value(pout.id[1][k]) < 64
        /\ Len(pout.id[1]) % 4 # 1

C17_Witness ==
    /\ pout.kind = "decoded" /\ pin.KubeConfig = <<>>
    /\ pin.ClusterID = <<<<97, 34>>>>
    /\ pin.name = <<34, 92>>
    /\ pout.val.ClusterID = <<97, 34>> /\ pout.val.Name = <<34, 92>>
    /\ Len(pout.id[1]) % 4 # 0

(* ---------------- C18 ---------------- *)

\* C18: generateID fails when both locators are set, when neither is set, and
\* when name, namespace or region is empty; it succeeds in every other case.
C18_GenerateIDErrors ==
    pout.kind = "generated" =>
        (pout.err # NoErr <=>
            \/ (pin.ClusterID # <<>> /\ pin.KubeConfig # <<>>)
            \/ (pin.ClusterID = <<>> /\ pin.KubeConfig = <<>>)
            \/ pin.name = <<>> \/ pin.namespace = <<>> \/ pin.region = <<>>)

(* ---------------- C19 ---------------- *)

\* C19: a step of create, update, delete or read that finds an ID on the model
\* leaves that ID as it is.
C19_IDImmutable ==
    [][ model.ID # <<>> => model'.ID = model.ID ]_vars

\* a step has run on a model whose ID is not the one its locator would give now
C19_Witness ==
    /\ inv.invoked /\ inv.idIn /\ op = "Update"
    /\ model.ID # generateID(model).id
    /\ Has(inv.calls, "HelmUpgrade")

(* ---------------- C20 ---------------- *)

\* the StartTime an invocation works with: that of the token it was handed, or,
\* at the first call, the one the process has fixed
StartTimeIn == IF inv.ctxIn = <<>> THEN StartTime ELSE inv.ctxIn[1].StartTime

\* C20: an InProgress outcome carries the token {Stage, StartTime, Name} with the
\* next stage, the StartTime of the incoming token (that of the first call) and
\* the release name, and a delay of 30 seconds; a Complete or Failed outcome
\* carries no token.
C20_ResumeToken ==
    inv.invoked =>
        /\ result.OperationStatus = InProgress =>
              /\ CallbackContext = <<[Stage |-> inv.next, StartTime |-> StartTimeIn,
                                      Name |-> StringValue(model.Name)]>>
              /\ model.Name # <<>>
              /\ result.CallbackDelaySeconds = 30
        /\ result.OperationStatus \in {Success, Failed} => CallbackContext = <<>>

\* a later poll, at a later time, has handed on the token's StartTime
C20_Witness ==
    /\ inv.invoked /\ result.OperationStatus = InProgress
    /\ inv.ctxIn # <<>> /\ inv.elapsed > 0
    /\ CallbackContext[1].StartTime = inv.ctxIn[1].StartTime

(* ---------------- C21 ---------------- *)

\* the table of the readiness inspector: when an object of a kind is pending
IsPending(o) ==
    \/ o.kind = "Service" /\ o.type = "LoadBalancer" /\ o.ingress = 0
    \/ o.kind \in {"Deployment", "StatefulSet"} /\ o.ready < o.replicas
    \/ o.kind = "DaemonSet" /\ o.unavailable > 0
    \/ o.kind = "Ingress" /\ o.ingress = 0

\* the positions of the manifest that hold an object
ObjectsOf(manifest) == {i \in DOMAIN manifest : manifest[i] \notin {BlankDoc, BadDoc}}

Inspected == pin.kind = "CheckPendingResources" /\ pout.kind = "checked"

\* C21: the verdict returned without error for a manifest is "pending" exactly
\* when some object of the manifest is pending by the table of its kind,
\* whatever the other objects are and wherever the object stands.
C21_PendingIsOr ==
    (Inspected /\ pout.err = NoErr) =>
        (pout.pending <=> \E i \in ObjectsOf(pin.manifest) : IsPending(pin.manifest[i]))

\* a pending object followed by objects that are not pending
C21_Witness ==
    /\ Inspected /\ pout.err = NoErr /\ pout.pending
    /\ Len(pin.manifest) = 3
    /\ IsPending(pin.manifest[1])
    /\ \A i \in 2..3 : i \in ObjectsOf(pin.manifest) /\ ~IsPending(pin.manifest[i])

(* ---------------- C22 ---------------- *)

\* C22 (as claimed): for the empty manifest text and for a manifest without any
\* object the inspector returns an error, never "not pending".
C22_NoObjectsIsError ==
    (Inspected /\ ObjectsOf(pin.manifest) = {}) => pout.err # NoErr

(* ---------------- C23 ---------------- *)

NamespaceCalled == pin.kind = "createNamespace" /\ pout.kind = "created"

\* C23: a call for a namespace that is there, answered with AlreadyExists, returns
\* no error, however often it is made; the namespace made returns no error; any
\* other answer of the API server is returned as an error.
C23_NamespaceIdempotent ==
    NamespaceCalled =>
        /\ pout.answer = AlreadyExists => (pout.err = NoErr /\ pout.existed)
        /\ pout.answer = NoErr => (pout.err = NoErr /\ pin.namespace \in namespaces)
        /\ pout.answer \notin {NoErr, AlreadyExists} =>
              pout.err = <<"Error: At ", "Create NS", " - ">> \o pout.answer
        /\ (pout.existed /\ pout.err # NoErr) => pout.answer \notin {NoErr, AlreadyExists}

C23_Witness ==
    /\ NamespaceCalled /\ pout.existed /\ pout.answer = AlreadyExists /\ pout.err = NoErr
    /\ pin.namespace \in namespaces

(* ---------------- C24 ---------------- *)

UninstallCalled == pin.kind = "HelmUninstall" /\ pout.kind = "uninstalled"

\* C24: the uninstall of a release that is not there returns no error (the
\* engine's "not found" is dropped), so does the uninstall that removes it, and
\* any other error of the engine is returned as an error.
C24_UninstallIdempotent ==
    UninstallCalled =>
        /\ pout.before = ReleaseAbsent => (pout.err = NoErr /\ pout.notFound)
        /\ pout.err = NoErr => pout.after = ReleaseAbsent
        /\ pout.err # NoErr =>
              (pout.err = Err("Helm Uninstall") /\ ~pout.notFound /\ pout.after = pout.before)

\* the second uninstall in a row
C24_Witness ==
    /\ UninstallCalled /\ pout.before = ReleaseAbsent /\ pout.notFound
    /\ pout.err = NoErr /\ pout.after = ReleaseAbsent

(* ---------------- C25 ---------------- *)

Derived == pin.kind = "getVpcConfig" /\ pout.kind = "derived"

\* the endpoint is public and open to 0.0.0.0/0
OpenToAll ==
    pin.EndpointPublicAccess /\ \E i \in DOMAIN pin.PublicAccessCidrs : pin.PublicAccessCidrs[i] = AnyCidr

\* the subnets of the target whose route table (their own, else the main one)
\* has a route to a NAT gateway
Natted ==
    { pin.SubnetIds[i].id : i \in { j \in DOMAIN pin.SubnetIds :
          LET t == IF pin.SubnetIds[j].table # <<>> THEN pin.SubnetIds[j].table[1] ELSE pin.main
          IN \E k \in DOMAIN t : t[k] = "nat" } }

ApiFailed == pout.err \in {Err("DescribeCluster"), Err("DescribeSubnets"), Err("DescribeRouteTables")}

\* C25 (as claimed): with an explicit isolation config or without cluster
\* locator nothing is derived; else a public endpoint open to 0.0.0.0/0 needs no
\* connector; else the connector's subnets are the subnets behind a NAT gateway,
\* and with no such subnet the step is Failed.
C25_IsolationDetection ==
    (Derived /\ ~ApiFailed) =>
        IF pin.VPCConfiguration \/ ~pin.ClusterID THEN pout.vpc = <<>> /\ pout.err = NoErr
        ELSE IF OpenToAll THEN pout.vpc = <<>> /\ pout.err = NoErr
        ELSE IF Natted = {} THEN pout.vpc = <<>> /\ pout.err # NoErr /\ pout.status = Failed
        ELSE /\ pout.err = NoErr /\ pout.vpc # <<>>
             /\ {pout.vpc[1].SubnetIds[i] : i \in DOMAIN pout.vpc[1].SubnetIds} = Natted

\* the endpoint is public and the first public access CIDR is 0.0.0.0/0
FirstCidrOpen == pin.EndpointPublicAccess /\ pin.PublicAccessCidrs[1] = AnyCidr

\* the number of routes to a NAT gateway in the route table of the j-th subnet
NatRouteCount(j) ==
    LET t == IF pin.SubnetIds[j].table # <<>> THEN pin.SubnetIds[j].table[1] ELSE pin.main
    IN Cardinality({k \in DOMAIN t : t[k] = "nat"})

\* C25 (amended): as claimed, except that the endpoint counts as open when it
\* is public and the FIRST public access CIDR is 0.0.0.0/0, and that a subnet is
\* listed once per NAT route of its table.
C25_FirstCidrDetection ==
    (Derived /\ ~ApiFailed) =>
        IF pin.VPCConfiguration \/ ~pin.ClusterID THEN pout.vpc = <<>> /\ pout.err = NoErr
        ELSE IF FirstCidrOpen THEN pout.vpc = <<>> /\ pout.err = NoErr
        ELSE IF Natted = {} THEN pout.vpc = <<>> /\ pout.err # NoErr /\ pout.status = Failed
        ELSE /\ pout.err = NoErr /\ pout.vpc # <<>>
             /\ {pout.vpc[1].SubnetIds[i] : i \in DOMAIN pout.vpc[1].SubnetIds} = Natted
             /\ \A j \in DOMAIN pin.SubnetIds :
                    Cardinality({i \in DOMAIN pout.vpc[1].SubnetIds :
                                    pout.vpc[1].SubnetIds[i] = pin.SubnetIds[j].id}) = NatRouteCount(j)

\* a public endpoint whose list holds 0.0.0.0/0, but not first, gets a connector
C25_Witness ==
    /\ Derived /\ pin.ClusterID /\ ~pin.VPCConfiguration
    /\ OpenToAll /\ ~FirstCidrOpen
    /\ pout.vpc # <<>> /\ pout.err = NoErr

(* ---------------- C26 ---------------- *)

\* C26: a handler that has returned has returned no raw error, and an outcome
\* that is not empty; a failure is a Failed outcome with a message.
C26_NoRawError ==
    inv.invoked =>
        /\ rawErr = NoErr
        /\ result # emptyEvent
        /\ result.OperationStatus \in {InProgress, Success, Failed}
        /\ (result.OperationStatus = Failed => result.Message # <<>>)

(* ---------------- C27 ---------------- *)

\* C27: whatever List is handed, it returns the 'not implemented' error and the
\* empty event, calls nothing, and leaves the model, the connector, the release
\* and the diagnostics as they were.
C27_ListUnimplemented ==
    [][ op = "List" =>
          /\ rawErr' = Err("not implemented: List")
          /\ result' = emptyEvent
          /\ inv'.calls = <<>> /\ inv'.lam = "none" /\ inv'.del = "none" /\ inv'.created = 0
          /\ inv'.relay = NoRelay
          /\ model' = model /\ fn' = fn /\ release' = release
          /\ LastKnownErrors' = LastKnownErrors /\ installs' = installs
          /\ CallbackContext' = <<>> ]_vars

\* List has been called for a deployed release behind a connector
C27_Witness ==
    /\ op = "List" /\ inv.invoked
    /\ model.ID # <<>> /\ fn = StateActive /\ release = StatusDeployed
    /\ rawErr # NoErr

(* ---------------- C28 ---------------- *)

Finished(tasks) == {e \in DOMAIN tasks : tasks[e] \in {"ok", "failed"}}

\* C28: the fan-out starts one task per entry of the repository file; a step of
\* a task finishes that task alone and writes no index but its own; the refresh
\* returns from the fan-out only when every task has finished, and then without
\* error, also when tasks have failed.
C28_FanOut ==
    [][ \A p \in Procs :
          /\ (proc[p].pc = "spawn" /\ proc'[p].pc = "wait")
                => (DOMAIN proc'[p].tasks = proc[p].f
                    /\ \A e \in proc[p].f : proc'[p].tasks[e] = "running")
          /\ (proc[p].pc = "wait" /\ proc'[p].pc = "wait" /\ proc'[p] # proc[p])
                => \E e \in DOMAIN proc[p].tasks :
                      /\ proc[p].tasks[e] = "running" /\ proc'[p].tasks[e] \in {"ok", "failed"}
                      /\ \A d \in DOMAIN proc[p].tasks \ {e} : proc'[p].tasks[d] = proc[p].tasks[d]
                      /\ \A d \in Entries \ {e} : indexes'[d] = indexes[d]
                      /\ proc'[p].tasks[e] = "failed" => indexes' = indexes
          /\ (proc[p].pc = "wait" /\ proc'[p].pc = "done")
                => (Finished(proc[p].tasks) = proc[p].f /\ proc'[p].ret = <<NoErr>>) ]_vars

\* a refresh of two repositories has returned although one of its tasks failed
C28_Witness ==
    \E p \in Procs :
        /\ proc[p].pc = "done" /\ proc[p].ret = <<NoErr>>
        /\ proc[p].f = Entries
        /\ \E e, d \in Entries : proc[p].tasks[e] = "failed" /\ proc[p].tasks[d] = "ok"

(* ---------------- C29 ---------------- *)

\* C29: an execution removes, reads and writes the repository config only
\* while it holds the lock, holds the lock all through the fan-out, and has
\* released it when it has returned.
C29_LockGuards ==
    [][ \A p \in Procs :
          /\ (proc[p].pc \in {"remove", "read", "write"} /\ proc'[p] # proc[p]) => lockHolder = p
          /\ proc[p].pc \in {"spawn", "wait"} => lockHolder = p
          /\ proc'[p].pc = "done" => lockHolder' # p ]_vars

(* ---------------- C30 ---------------- *)

\* a create without isolation whose invocation raised no error within the budget
ScenarioAStep ==
    /\ op = "Create" /\ inv' # inv
    /\ ~model'.VPCConfiguration
    /\ inv'.err = NoErr /\ rawErr' = NoErr
    /\ ~Over'

ScenarioBStep ==
    /\ op = "Create" /\ inv' # inv
    /\ model'.VPCConfiguration
    /\ inv'.err = NoErr /\ rawErr' = NoErr
    /\ ~Over'

\* the invocation asked the Lambda service to create the connector
Provisions == \E i \in DOMAIN inv.calls : inv.calls[i] = "CreateFunction"

\* the ReleaseStabilize polls of scenario B: repeated while pending, then Complete
ScenarioBPolls ==
    (inv'.stage = ReleaseStabilize /\ inv'.lam = "ready" /\ inv'.status = StatusDeployed) =>
        /\ issued(inv'.calls) = 0
        /\ inv'.pending = "true" =>
              (result'.OperationStatus = InProgress /\ result'.Stage = ReleaseStabilize)
        /\ inv'.pending = "false" => result'.OperationStatus = Success

IsPrefix(a, b) == Len(a) <= Len(b) /\ \A i \in DOMAIN a : a[i] = b[i]

\* C32: the diagnostics trail only grows: after every step the trail it found
\* is a prefix of the trail it leaves.
C32_TrailAppendOnly ==
    [][ IsPrefix(LastKnownErrors, LastKnownErrors') ]_vars

(* ---------------- C33 ---------------- *)

\* the budget in minutes: the TimeOut supplied, or 60
BudgetMinutes == IF pin.timeOut = <<>> THEN 60 ELSE pin.timeOut[1]

\* C33: checkTimeOut is true exactly when the whole seconds elapsed since the
\* start-time have reached the budget (TimeOut minutes, 60 without TimeOut)
\* times 60.
C33_TimeBudget ==
    (pin.kind = "checkTimeOut" /\ pout.kind = "checked") =>
        (pout.val <=> (pin.elapsed \div 1000 >= BudgetMinutes * 60))

\* 10 hours after the start a TimeOut of 90 minutes is over
C33_Witness ==
    /\ pin.kind = "checkTimeOut" /\ pout.kind = "checked"
    /\ pin.timeOut = <<90>> /\ pin.elapsed = 10 * 60 * 60 * 1000
    /\ pout.val

(* ---------------- C34 ---------------- *)

\* the calls by which a delete asks for the uninstall: directly, or through the connector
UninstallCalls == {"HelmUninstall", "Invoke"}

UninstallAttempted == \E i \in DOMAIN inv.calls : inv.calls[i] \in UninstallCalls

\* the uninstall of the last invocation returned an error: the invocation asked
\* for it, raised an error and never asked for the teardown
UninstallFailed ==
    inv.invoked /\ op = "Delete" /\ UninstallAttempted /\ inv.err # NoErr /\ inv.del = "none"

\* C34: a delete invocation asks for the connector's deletion only after the
\* uninstall of the same invocation, and only when that left the release absent
\* (uninstalled, or not found); when the uninstall returned another error the
\* outcome is Failed, nothing is called after it and the connector stays Active.
C34_UninstallBeforeTeardown ==
    (inv.invoked /\ op = "Delete") =>
        /\ Has(inv.calls, "DeleteFunction") =>
              /\ UninstallAttempted
              /\ \A i, j \in DOMAIN inv.calls :
                    (inv.calls[i] \in UninstallCalls /\ inv.calls[j] = "DeleteFunction") => i < j
              /\ release = ReleaseAbsent
        /\ UninstallFailed =>
              /\ result.OperationStatus = Failed
              /\ ~Has(inv.calls, "DeleteFunction")
              /\ inv.calls[Len(inv.calls)] \in UninstallCalls
              /\ model.VPCConfiguration => fn = StateActive

\* the uninstall through the connector was refused: Failed, the connector is there
C34_Witness ==
    /\ UninstallFailed /\ model.VPCConfiguration
    /\ Has(inv.calls, "HelmUninstall") /\ release = StatusDeployed
    /\ fn = StateActive /\ result.OperationStatus = Failed

(* ---------------- C35 ---------------- *)

\* the operation has ended: Complete or Failed
Terminal == result.OperationStatus \in {Success, Failed}

\* C35: a create, update or delete that is polled again and again with the
\* token returned ends in Complete or Failed.
C35_EventuallyTerminal == <>Terminal

\* an operation still in progress when its budget was reached has been failed
C35_Witness ==
    /\ op \in {"Create", "Update", "Delete"}
    /\ result.OperationStatus = Failed /\ result.Message[1] = TimedOutText
    /\ now = MaxNow

\* C36: the connector's handler refines the driver's own call. For an event whose
\* ID decodes and whose model carries the name of the ID, each of install,
\* upgrade, uninstall, status, pending check and resource listing (and list) run
\* by HandleRequest has exactly the outcomes of the operation the wrapper runs
\* directly: same calls, same release name, same result or error, same release
\* left behind; an action the handler does not know yields an error and no call.
DriverEvent == DecodeID(pin.id) = NoErr /\ pin.name = DecodedName(pin.id)

C37_NextStageHandled ==
    /\ (op \in CUD /\ result.OperationStatus = InProgress) =>
            /\ result.Stage \in {InitStage, LambdaStabilize, ReleaseStabilize}
            /\ result.Stage \notin {NoStage, UninstallRelease, CompleteStage}
            /\ op = "Delete" => result.Stage # ReleaseStabilize
            /\ Handled(op, result.Stage)
    /\ (op \in CUD /\ inv.invoked) =>
            /\ Handled(op, inv.stage)
            /\ inv.err # <<UnhandledStageText, inv.stage>>

C37_Witness ==
    /\ op = "Delete" /\ inv.invoked /\ inv.stage = LambdaStabilize
    /\ result.OperationStatus = InProgress /\ result.Stage = LambdaStabilize

\* C38: two requests that differ in the security-group id list or in the subnet
\* id list never produce the same text fed to the hash (so, the hash taken as
\* injective, never the same connector name).
C38_DistinctInputsDistinctText ==
    (pout.kind = "named" /\ ~pout.a.panic /\ ~pout.b.panic
        /\ <<pin.sgA, pin.snA>> # <<pin.sgB, pin.snB>>) =>
        /\ nameText(pin.ClusterID, pin.KubeConfig,
                    <<[SecurityGroupIds |-> pin.sgA, SubnetIds |-> pin.snA]>>)
             # nameText(pin.ClusterID, pin.KubeConfig,
                        <<[SecurityGroupIds |-> pin.sgB, SubnetIds |-> pin.snB]>>)
        /\ pout.a.functionName # pout.b.functionName

\* C39: a delete run again after a delete that completed, with the release and
\* the connector both absent, installs nothing; its uninstall finds no release
\* and does not fail, so the invocation that runs it reports Complete (only the
\* teardown of the connector it made for the purpose can still fail it), and at
\* Complete the release and the connector are absent.
SecondDelete == op = "Delete" /\ pin.kind = "again"

C39_DeleteIdempotent ==
    SecondDelete =>
        /\ release = ReleaseAbsent
        /\ (inv.invoked /\ Has(inv.calls, "HelmUninstall")) =>
              /\ inv.notFound
              /\ result.OperationStatus = Success \/ inv.err = Err("AWSError")
              /\ ~model.VPCConfiguration => result.OperationStatus = Success
        /\ result.OperationStatus = Success => fn = StateNotFound

\* the second delete of a release behind a connector: the connector is made
\* again, the uninstall finds nothing, the connector is removed, Complete
C39_Witness ==
    /\ SecondDelete /\ model.VPCConfiguration
    /\ result.OperationStatus = Success
    /\ Has(inv.calls, "CreateFunction") /\ Has(inv.calls, "HelmUninstall")
    /\ Has(inv.calls, "DeleteFunction")
    /\ release = ReleaseAbsent /\ fn = StateNotFound

\* a poll of a create or update of a release behind a connector, with its ID,
\* that raised no error within the budget
SharedStep ==
    /\ op \in {"Create", "Update"} /\ inv' # inv
    /\ model'.VPCConfiguration /\ inv'.idIn
    /\ inv'.err = NoErr /\ rawErr' = NoErr
    /\ ~Over'

\* the last poll found the connector gone and made it again
Recreated == inv.invoked /\ inv.first = StateNotFound /\ Provisions

\* C40: when the connector is torn down (by the delete of another release that
\* shares it) between two polls of a create or update, the next poll finds it
\* NotFound, makes it again and reports InProgress or goes on with its step; and
\* the operation, its install or upgrade already issued, completes at the poll
\* that finds the connector Active and the release deployed and ready, without
\* issuing the install or upgrade again.
C40_SharedBridgeTeardown ==
    [][ SharedStep =>
          /\ fn = StateNotFound =>
                /\ inv'.first = StateNotFound /\ Provisions'
                /\ result'.OperationStatus \in {InProgress, Success}
          /\ (seenRS /\ Recreated /\ inv'.first = StateActive /\ release = StatusDeployed) =>
                /\ issued(inv'.calls) = 0
                /\ \/ result'.OperationStatus = Success
                   \/ inv'.pending = "true" /\ result'.Stage = ReleaseStabilize ]_vars

====
